---- MODULE Spec2Model ----
(***************************************************************************)
(* The Nut build tools: discovery of the service descriptors               *)
(* (ServiceMetaLoader.py), the build engine (BuildEngine.py) and the       *)
(* per-service operations BuildService / CleanService / PackageService     *)
(* (Compiler.py).  The repository holds two generations of these files:    *)
(*   "BS"  = BuildSystem/BuildScripts/...                                  *)
(*   "NBT" = Source/Programs/NutBuildTools/Core/...                        *)
(* The variable `variant` fixes which generation a behaviour runs.         *)
(***************************************************************************)
EXTENDS Integers, Sequences, FiniteSets, TLC

\* ------------------------------------------------------------------ bounds
\* number of engine commands issued one after the other in one behaviour
MaxOps == 2
\* number of service directories of one discovery root
MaxDirs == 2

\* ------------------------------------------------------------- small helpers
None == "None"

Range(s) == {s[i] : i \in 1..Len(s)}

\* all orders in which a directory listing (iterdir / glob) may return a set
Orders(S) == {s \in [1..Cardinality(S) -> S] : \A i, j \in 1..Cardinality(S) : i # j => s[i] # s[j]}

\* a file name, split the way pathlib splits it: Path.stem and Path.suffix
File(stem, ext) == [stem |-> stem, ext |-> ext]

\* ------------------------------------------------------------------- state
VARIABLES
    variant,    \* "BS" or "NBT": the generation of Compiler.py / ServiceMetaLoader.py
    platform,   \* platform.system(): "Linux" or "Windows"
    avail,      \* the compiler executables shutil.which / os.path.exists can find
    meta,       \* per unit: the descriptor (ServiceMeta dict)
    services,   \* engine.services: the unit names, in insertion order of the dict
    protoc,     \* what the last FindProtoc call returned ("unset": no call yet)
    fs,         \* per unit: the files on disk below the service directory
    cmd,        \* the command the engine is carrying out
    arg,        \* its optional unit-name argument
    epc,        \* position of the engine: "idle", "run", "exited"
    queue,      \* units the running command has still to visit
    visited,    \* units the running command has called its operation for
    results,    \* <<unit, report>> of every operation call that returned
    exitCode,   \* exit status of the last command's process (-1: none yet)
    hist,       \* the commands completed so far, <<cmd, arg>> each
    cur,        \* unit of the operation call in progress
    bpc,        \* position inside BuildService
    protoQ,     \* proto files BuildService has still to look at
    srcQ,       \* source files BuildService has still to compile
    stageQ,     \* config/proto files BuildService has still to copy
    tools,      \* result of DetectCompiler for this BuildService call
    objFiles,   \* obj_files: objects compiled so far in this call
    log,        \* external commands issued / warnings printed by this call
    report,     \* outcome of the operation call in progress
    pre,        \* the unit's files on disk when the call started
    scan,       \* discovery: the roots to scan, each the listing of its entries
    spc,        \* discovery: position ("off", "scan", "done", "failed")
    ridx,       \* discovery: index of the root being scanned
    sidx,       \* discovery: index of the next entry of that root
    loaded,     \* discovery: the dict LoadAllServiceMeta is filling, <<name, descriptor>> pairs
    found,      \* discovery: engine.services as built so far, <<name, descriptor>> pairs
    ran,        \* discovery: the descriptor files whose code exec_module has run
    printed,    \* discovery: the unit names the list command has printed, in order
    tree,       \* project generator: the project directories below Source/, sorted by path
    gpc,        \* project generator: position of cli.main
    didx,       \* project generator: index of the next directory DiscoverAllProjects analyses
    projects,   \* project generator: the ProjectInfo list, in discovery order
    warnings,   \* project generator: the log records of the parser and the discoverer
    gexit,      \* project generator: exit status of cli.main (-1: still running)
    gcmd,       \* project generator: the command cli.main was started with
    run,        \* project generator: number of the invocation of cli.main in progress
    gidx,       \* project generator: index of the next project GenerateProjects handles
    rng,        \* project generator: the random stream of the emitter's UuidGenerator
    denied,     \* project generator: the units whose output files cannot be written
    opaque,     \* project generator: the units whose generated-header directory cannot be examined
    derived,    \* project generator: the identifier tables _GenerateUuids returned
    written,    \* project generator: the files written, in order of writing
    reported,   \* project generator: what the emitters returned to cli as generated
    services_dir, \* service generator: per directory below MicroServices, its Configs/<dir>Config.json
    service_name, \* service generator: the name GenerateService was called with
    port,       \* service generator: the port argument (<<>>: omitted, Python None)
    vpc,        \* service generator: position inside GenerateService
    emitted,    \* service generator: the texts written by this call and the port printed
    before      \* service generator: services_dir when the call started

engineVars == <<cmd, arg, epc, queue, visited, results, exitCode, hist>>
buildVars == <<cur, bpc, protoQ, srcQ, stageQ, tools, objFiles, log, report, pre>>
envVars == <<variant, platform, avail, meta, services, protoc>>
scanVars == <<scan, spc, ridx, sidx, loaded, found, ran, printed>>
discVars == <<tree, gpc, didx, projects, warnings, gexit>>
emitVars == <<gcmd, run, gidx, rng, denied, opaque, derived, written, reported>>
genVars == <<discVars, emitVars>>
svcVars == <<services_dir, service_name, port, vpc, emitted, before>>
vars == <<envVars, fs, engineVars, buildVars, scanVars, svcVars, genVars>>

\* ---------------------------------------------------------------- toolchain
\* first candidate of the probe list that is available, None when there is none
FirstAvailable(cands, av) ==
    IF \E i \in 1..Len(cands) : cands[i] \in av
    THEN cands[CHOOSE i \in 1..Len(cands) : cands[i] \in av /\ \A j \in 1..(i-1) : cands[j] \notin av]
    ELSE None

NotFound == [compiler |-> None, linker |-> None, obj_ext |-> None]

\* BuildSystem/BuildScripts/Compiler.py DetectCompiler
DetectCompilerBS(plat, av) ==
    LET cands == IF plat = "Windows" THEN <<"g++.exe", "C:/MinGW/bin/g++.exe", "cl.exe">>
                 ELSE <<"g++", "clang++">>
        c == FirstAvailable(cands, av)
    IN  IF c = None THEN NotFound
        ELSE [compiler |-> c, linker |-> c,
              obj_ext |-> IF plat = "Windows" /\ c = "cl.exe" THEN ".obj" ELSE ".o"]

\* NutBuildTools/Core/Compiler.py find_cl: PATH, then the Visual Studio
\* installation directories, then the registry
find_cl(av) == FirstAvailable(<<"cl.exe", "VS/cl.exe", "Reg/cl.exe">>, av)

\* NutBuildTools/Core/Compiler.py DetectCompiler
DetectCompilerNBT(plat, av) ==
    IF plat = "Windows"
    THEN LET g == FirstAvailable(<<"g++.exe", "C:/MinGW/bin/g++.exe">>, av)
         IN  IF g # None THEN [compiler |-> g, linker |-> g, obj_ext |-> ".o"]
             ELSE IF find_cl(av) # None
                  THEN [compiler |-> find_cl(av), linker |-> find_cl(av), obj_ext |-> ".obj"]
                  ELSE NotFound
    ELSE LET c == FirstAvailable(<<"g++", "clang++">>, av)
         IN  IF c = None THEN NotFound ELSE [compiler |-> c, linker |-> c, obj_ext |-> ".o"]

DetectCompiler == IF variant = "BS" THEN DetectCompilerBS(platform, avail)
                  ELSE DetectCompilerNBT(platform, avail)

\* whether the literal command name "g++" starts a process
GppRunnable == "g++" \in avail \/ "g++.exe" \in avail

\* Compiler.py FindProtoc (the same text in both generations): the protoc
\* shipped below Tools/protoc/bin, else what shutil.which finds on PATH, else
\* the bare command name
LocalProtoc(plat) == IF plat = "Windows" THEN "Tools/protoc/bin/protoc.exe" ELSE "Tools/protoc/bin/protoc"
Which(name, av) == IF name \in av THEN "PATH/" \o name ELSE None
FindProtoc(plat, av) ==
    IF LocalProtoc(plat) \in av THEN LocalProtoc(plat)
    ELSE IF Which("protoc", av) # None THEN Which("protoc", av)
    ELSE "protoc"

\* ------------------------------------------------------------ units and disk
Units == {"A", "B"}

\* a directory: whether it exists, the files directly inside it, and the
\* files lying in its subdirectory sub/
Tree(exists, files, deep) == [exists |-> exists, files |-> files, deep |-> deep]
Dir(exists, files) == Tree(exists, files, {})
Absent == Dir(FALSE, {})

\* what protoc --cpp_out writes for <p>.proto: <p>.pb.cc (and a header)
PbStem(p) == IF p = "p" THEN "p.pb" ELSE "q.pb"
Generated(p) == File(PbStem(p), ".cc")

\* the descriptors of the two units: A declares everything, B only its name
MetaOf(u, protoDecl) ==
    IF u = "A"
    THEN [name |-> "A", proto_files |-> protoDecl, config_files |-> <<"cfg">>, output |-> "AMain"]
    ELSE [name |-> "B", proto_files |-> <<>>, config_files |-> <<>>, output |-> None]

ProtoShapes == { [decl |-> <<>>, disk |-> {}],
                 [decl |-> <<"p", "q">>, disk |-> {"q"}],
                 [decl |-> <<"p">>, disk |-> {"p"}] }

SourceShapes == { {}, {File("a", ".cpp")}, {File("a", ".cpp"), File("b", ".c")},
                  {File("a", ".cpp"), File("a", ".c")} }

Stale == {File("old", ".o")}

Nested == {File("deep", ".txt")}

OutShapes == {Absent, Dir(TRUE, {}), Dir(TRUE, Stale), Tree(TRUE, Stale, Nested)}

\* no compiler at all, g++ on Linux, only MSVC on Windows
Toolchains == { <<"Linux", {}>>, <<"Linux", {"g++"}>>, <<"Windows", {"cl.exe"}>> }

\* MetaLoader.py BuildMeta.__init__: constructing the unit object creates
\* outputDir and intermediateDir (mkdir(exist_ok=True))
BuildMetaInit(d) == [d EXCEPT !.out.exists = TRUE, !.inter.exists = TRUE]

DiskOf(ps, ss, cfg, o, i) ==
    [protos |-> ps, srcs |-> ss, cfgs |-> cfg, out |-> o, inter |-> i, tar |-> Absent]

\* the engine before its first command, on every disk state of the shapes above
InitEnv ==
    /\ variant \in {"BS", "NBT"}
    /\ \E t \in Toolchains : platform = t[1] /\ avail = t[2]
    /\ services = <<"A", "B">> /\ protoc = "unset"
    /\ \E ps \in ProtoShapes, ss \in SourceShapes, o \in OutShapes :
          /\ meta = [u \in Units |-> MetaOf(u, ps.decl)]
          /\ LET a == DiskOf(ps.disk, ss, {"cfg"}, o, IF variant = "BS" THEN Absent ELSE o)
                 b == DiskOf({}, {File("m", ".cpp")}, {}, Absent, Absent)
             IN  fs = [u \in Units |-> IF variant = "NBT"
                                       THEN BuildMetaInit(IF u = "A" THEN a ELSE b)
                                       ELSE IF u = "A" THEN a ELSE b]

InitEngine ==
    /\ cmd = None /\ arg = None /\ epc = "idle" /\ queue = <<>> /\ visited = <<>>
    /\ results = <<>> /\ exitCode = -1 /\ hist = <<>>

InitBuild ==
    /\ cur = None /\ bpc = "idle" /\ protoQ = <<>> /\ srcQ = <<>> /\ stageQ = <<>>
    /\ tools = NotFound /\ objFiles = <<>> /\ log = <<>> /\ report = None /\ pre = None

NoEmit ==
    /\ gcmd = "discover" /\ run = 1 /\ gidx = 0 /\ rng = None /\ denied = {} /\ opaque = {}
    /\ derived = <<>> /\ written = <<>> /\ reported = <<>>

\* no call of the service generator
NoService ==
    /\ services_dir = <<>> /\ service_name = None /\ port = <<>> /\ vpc = "off"
    /\ emitted = <<>> /\ before = <<>>

NoGen ==
    /\ tree = <<>> /\ gpc = "off" /\ didx = 0 /\ projects = <<>> /\ warnings = <<>>
    /\ gexit = -1 /\ NoEmit /\ NoService

NoScan ==
    /\ scan = <<>> /\ spc = "off" /\ ridx = 0 /\ sidx = 0
    /\ loaded = <<>> /\ found = <<>> /\ ran = <<>> /\ printed = <<>>

Init == InitEnv /\ InitEngine /\ InitBuild /\ NoScan /\ NoGen

\* ------------------------------------------------------------------ engine
\* every command line is a new process: BuildEngine() and one command
Names == Range(services)

\* the optional [unit] argument of a command: none, a discovered unit, an unknown name
Args == {None, "A", "X"}

\* BuildEngine.Build / Clean / Package: a named unit is looked up in the
\* mapping (an unknown name only prints a message), no name means every unit
ToVisit(a) == IF a # None THEN (IF a \in Names THEN <<a>> ELSE <<>>) ELSE services

Dispatch(c, a) ==
    /\ epc = "idle" /\ Len(hist) < MaxOps
    /\ cmd' = c /\ arg' = a /\ epc' = "run"
    /\ queue' = ToVisit(a)
    /\ visited' = <<>> /\ results' = <<>> /\ exitCode' = -1
    /\ cur' = None /\ bpc' = "idle" /\ protoQ' = <<>> /\ srcQ' = <<>> /\ stageQ' = <<>>
    /\ tools' = NotFound /\ objFiles' = <<>> /\ log' = <<>> /\ report' = None /\ pre' = None
    /\ UNCHANGED <<hist, envVars, fs, scanVars, svcVars, genVars>>

Build(a) == Dispatch("build", a)
Clean(a) == Dispatch("clean", a)
Package(a) == Dispatch("package", a)

\* the loop `for svc in self.services.values(): XService(svc, ...)` takes the next unit
Enter(c) ==
    /\ epc = "run" /\ cmd = c /\ bpc = "idle" /\ queue # <<>>
    /\ cur' = Head(queue) /\ queue' = Tail(queue)
    /\ visited' = Append(visited, Head(queue))

\* the operation call returned to the loop
ServiceReturns ==
    /\ epc = "run" /\ bpc = "ret"
    /\ results' = Append(results, <<cur, report>>)
    /\ bpc' = "idle"
    /\ UNCHANGED <<cmd, arg, epc, queue, visited, exitCode, hist, envVars, fs, scanVars, svcVars, genVars,
                   cur, protoQ, srcQ, stageQ, tools, objFiles, log, report, pre>>

\* __main__: the command method returned; nothing sets an exit status, so the
\* interpreter exits with 0
MainExit ==
    /\ epc = "run" /\ bpc = "idle" /\ queue = <<>>
    /\ exitCode' = 0 /\ epc' = "idle" /\ hist' = Append(hist, <<cmd, arg>>)
    /\ UNCHANGED <<cmd, arg, queue, visited, results, envVars, fs, buildVars, scanVars, svcVars, genVars>>

\* an exception left the operation call: nothing between it and the top of the
\* process catches it, the loop is abandoned and the interpreter exits with 1
MainTraceback ==
    /\ epc = "run" /\ bpc = "raised"
    /\ exitCode' = 1 /\ epc' = "idle" /\ hist' = Append(hist, <<cmd, arg>>) /\ bpc' = "idle"
    /\ UNCHANGED <<cmd, arg, queue, visited, results, envVars, fs, scanVars, svcVars, genVars,
                   cur, protoQ, srcQ, stageQ, tools, objFiles, log, report, pre>>

\* ------------------------------------------------------------ BuildService
Event(k, f, ok, tool) == [k |-> k, f |-> f, ok |-> ok, tool |-> tool]

\* the directory the objects are written to
ObjDirBS(d) == d.out
ObjDirNBT(d) == d.inter

\* the proto files the ProtoGen stage walks over
ProtoListBS(u) == meta[u].proto_files
ProtoListsNBT(u) == Orders(fs[u].protos)

\* sources_dir.glob("*<ext>"): the matching files, in the order the directory yields them
GlobExt(d, ext) == Orders({f \in d.srcs : f.ext = ext})

\* cpp_files of BuildSystem/BuildScripts: *.cpp only
GlobBS(d) == GlobExt(d, ".cpp")

\* cpp_files of NutBuildTools: the *.cpp list, then the *.c list, then the *.cc list
GlobNBT(d) == {a \o b \o c : a \in GlobExt(d, ".cpp"), b \in GlobExt(d, ".c"), c \in GlobExt(d, ".cc")}

Glob(d) == IF variant = "BS" THEN GlobBS(d) ELSE GlobNBT(d)

\* name of the linked artifact
ExeBS(u) == File(IF meta[u].output # None THEN meta[u].output ELSE meta[u].name,
                 IF platform = "Windows" THEN ".exe" ELSE "")
ExeNBT(u) == File(meta[u].name, "")
Exe(u) == IF variant = "BS" THEN ExeBS(u) ELSE ExeNBT(u)

\* the files the Stage step walks over: config files, then proto files
StageList(u) ==
    [i \in 1..Len(meta[u].config_files) |-> [kind |-> "config", name |-> meta[u].config_files[i]]]
    \o [i \in 1..Len(meta[u].proto_files) |-> [kind |-> "proto", name |-> meta[u].proto_files[i]]]

OnDisk(d, x) == IF x.kind = "config" THEN x.name \in d.cfgs ELSE x.name \in d.protos
Copied(x) == File(x.name, IF x.kind = "config" THEN ".json" ELSE ".proto")

buildRest == <<envVars, engineVars, scanVars, svcVars, genVars>>

Return(why) == report' = why /\ bpc' = "ret"

\* `except Exception: ... return` around the protoc call
ProtocFailedNoReturn == protoQ' = Tail(protoQ) /\ UNCHANGED <<fs, report, bpc>>
ProtocFailed == Return("ProtoGenFailure") /\ UNCHANGED <<fs, protoQ>>

\* the else branch of `if proto_file.exists()`: a warning, then the next file
ProtoMissingAborts(p) ==
    /\ log' = Append(log, Event("warning", p, TRUE, None))
    /\ Return("ProtoGenFailure") /\ UNCHANGED <<fs, protoQ>>
ProtoMissing(p) ==
    /\ log' = Append(log, Event("warning", p, TRUE, None))
    /\ protoQ' = Tail(protoQ)
    /\ UNCHANGED <<fs, report, bpc>>

\* `if not cpp_files: ... return`
NoSourcesNoReturn == bpc' = "detect" /\ UNCHANGED <<srcQ, report>>
NoSources == Return("NoSourceFiles") /\ UNCHANGED srcQ

\* `if not compiler: ... return`
NoCompilerNoReturn == bpc' = "compile" /\ UNCHANGED report
NoCompiler == Return("ToolchainUnavailable")

\* `except subprocess.CalledProcessError: ... return` around the compile call
CompileFailedNoReturn == srcQ' = Tail(srcQ) /\ UNCHANGED <<fs, objFiles, report, bpc>>
CompileFailed == Return("CompileFailure") /\ UNCHANGED <<fs, srcQ, objFiles>>

\* `except subprocess.CalledProcessError: ... return` around the link call
LinkFailedNoReturn ==
    /\ IF variant = "BS"
       THEN stageQ' = StageList(cur) /\ bpc' = "stage" /\ UNCHANGED report
       ELSE Return("Success") /\ UNCHANGED stageQ
    /\ UNCHANGED fs
LinkFailed == Return("LinkFailure") /\ UNCHANGED <<fs, stageQ>>

\* entry of BuildService: BS creates outputDir, NBT relies on BuildMeta
BuildServiceBegin ==
    /\ Enter("build")
    /\ fs' = IF variant = "BS" THEN [fs EXCEPT ![Head(queue)].out.exists = TRUE] ELSE fs
    /\ pre' = fs[Head(queue)]
    /\ protoQ' \in (IF variant = "BS" THEN {ProtoListBS(Head(queue))} ELSE ProtoListsNBT(Head(queue)))
    /\ srcQ' = <<>> /\ stageQ' = <<>> /\ tools' = NotFound /\ objFiles' = <<>>
    /\ log' = <<>> /\ report' = None /\ bpc' = "proto"
    /\ UNCHANGED <<cmd, arg, epc, results, exitCode, hist, envVars, scanVars, svcVars, genVars>>

\* stage 1, one proto file: protoc on a file that exists, a warning otherwise
ProtoGen ==
    /\ bpc = "proto" /\ protoQ # <<>>
    /\ LET p == Head(protoQ) IN
       IF p \in fs[cur].protos
       THEN \E ok \in BOOLEAN :
              /\ log' = Append(log, Event("protoc", p, ok, "protoc"))
              /\ IF ok
                 THEN /\ fs' = [fs EXCEPT ![cur].srcs = @ \cup {Generated(p)}]
                      /\ protoQ' = Tail(protoQ)
                      /\ UNCHANGED <<report, bpc>>
                 ELSE ProtocFailed
       ELSE ProtoMissing(p)
    /\ UNCHANGED <<cur, srcQ, stageQ, tools, objFiles, pre, buildRest>>

\* stage 2a: enumerate the sources
CollectSources ==
    /\ bpc = "proto" /\ protoQ = <<>>
    /\ \E cpp_files \in Glob(fs[cur]) :
          IF cpp_files = <<>>
          THEN NoSources
          ELSE srcQ' = cpp_files /\ bpc' = "detect" /\ UNCHANGED report
    /\ UNCHANGED <<cur, protoQ, stageQ, tools, objFiles, log, pre, fs, buildRest>>

\* stage 2b: find the compiler
Detect ==
    /\ bpc = "detect"
    /\ tools' = DetectCompiler
    /\ IF DetectCompiler.compiler = None
       THEN NoCompiler
       ELSE bpc' = "compile" /\ UNCHANGED report
    /\ UNCHANGED <<cur, protoQ, srcQ, stageQ, objFiles, log, pre, fs, buildRest>>

\* the executable a compile / link command line starts with
CompileToolBS == tools.compiler
LinkToolBS == tools.linker
HardCodedGpp == "g++"
CompileTool == IF variant = "BS" THEN CompileToolBS ELSE HardCodedGpp
LinkTool == IF variant = "BS" THEN LinkToolBS ELSE HardCodedGpp

Startable(tool) == IF tool = "g++" THEN GppRunnable ELSE tool \in avail

ObjDir(d) == IF variant = "BS" THEN ObjDirBS(d) ELSE ObjDirNBT(d)

\* stage 2c, one source file
Compile ==
    /\ bpc = "compile" /\ srcQ # <<>>
    /\ LET f == Head(srcQ)
           obj == File(f.stem, tools.obj_ext)
       IN
       IF ~Startable(CompileTool)
       THEN \* FileNotFoundError is no CalledProcessError: it leaves BuildService
            /\ log' = Append(log, Event("compile", f, FALSE, CompileTool))
            /\ report' = "Exception" /\ bpc' = "raised"
            /\ UNCHANGED <<fs, srcQ, objFiles>>
       ELSE \E ok \in {b \in BOOLEAN : b => ObjDir(fs[cur]).exists} :
              /\ log' = Append(log, Event("compile", f, ok, CompileTool))
              /\ IF ok
                 THEN /\ fs' = IF variant = "BS"
                               THEN [fs EXCEPT ![cur].out.files = @ \cup {obj}]
                               ELSE [fs EXCEPT ![cur].inter.files = @ \cup {obj}]
                      /\ objFiles' = Append(objFiles, obj)
                      /\ srcQ' = Tail(srcQ)
                      /\ UNCHANGED <<report, bpc>>
                 ELSE CompileFailed
    /\ UNCHANGED <<cur, protoQ, stageQ, tools, pre, buildRest>>

\* stage 3: link the objects
Link ==
    /\ bpc = "compile" /\ srcQ = <<>>
    /\ IF ~Startable(LinkTool)
       THEN /\ log' = Append(log, Event("link", Exe(cur), FALSE, LinkTool))
            /\ report' = "Exception" /\ bpc' = "raised"
            /\ UNCHANGED <<fs, stageQ>>
       ELSE \E ok \in {b \in BOOLEAN : b => fs[cur].out.exists} :
              /\ log' = Append(log, Event("link", Exe(cur), ok, LinkTool))
              /\ IF ok
                 THEN /\ fs' = [fs EXCEPT ![cur].out.files = @ \cup {Exe(cur)}]
                      /\ IF variant = "BS"
                         THEN stageQ' = StageList(cur) /\ bpc' = "stage" /\ UNCHANGED report
                         ELSE Return("Success") /\ UNCHANGED stageQ
                 ELSE LinkFailed
    /\ UNCHANGED <<cur, protoQ, srcQ, tools, objFiles, pre, buildRest>>

\* stage 4 (BS only), one declared config / proto file: copied when it exists
Stage ==
    /\ bpc = "stage" /\ stageQ # <<>>
    /\ LET x == Head(stageQ) IN
       IF OnDisk(fs[cur], x)
       THEN \E ok \in BOOLEAN :
              /\ log' = Append(log, Event("copy", x.name, ok, "shutil.copy"))
              /\ IF ok
                 THEN /\ fs' = [fs EXCEPT ![cur].out.files = @ \cup {Copied(x)}]
                      /\ stageQ' = Tail(stageQ)
                      /\ UNCHANGED <<report, bpc>>
                 ELSE \* shutil.copy raises; BuildService has no handler around it
                      /\ report' = "Exception" /\ bpc' = "raised"
                      /\ UNCHANGED <<fs, stageQ>>
       ELSE /\ stageQ' = Tail(stageQ)
            /\ UNCHANGED <<fs, log, report, bpc>>
    /\ UNCHANGED <<cur, protoQ, srcQ, tools, objFiles, pre, buildRest>>

BuildServiceEnd ==
    /\ bpc = "stage" /\ stageQ = <<>>
    /\ Return("Success")
    /\ UNCHANGED <<cur, protoQ, srcQ, stageQ, tools, objFiles, log, pre, fs, buildRest>>

\* ------------------------------------------------- CleanService, PackageService
callRest == <<cmd, arg, epc, results, exitCode, hist, envVars, scanVars, svcVars, genVars,
              protoQ, srcQ, stageQ, tools, objFiles>>

\* BuildSystem/BuildScripts/Compiler.py CleanService: removes Build
CleanedBS(d) == [d EXCEPT !.out = Absent]

\* NutBuildTools/Core/Compiler.py CleanService: removes Build and Intermediate
CleanedOutOnly(d) == [d EXCEPT !.out = Absent]
CleanedNBT(d) == [d EXCEPT !.out = Absent, !.inter = Absent]

Cleaned(d) == IF variant = "BS" THEN CleanedBS(d) ELSE CleanedNBT(d)

CleanService ==
    /\ Enter("clean")
    /\ fs' = [fs EXCEPT ![Head(queue)] = Cleaned(@)]
    /\ pre' = fs[Head(queue)]
    /\ log' = <<>> /\ Return("Cleaned")
    /\ UNCHANGED callRest

\* the members tarfile.add(name, arcname) writes for one entry of outputDir: a
\* file becomes one member; a directory becomes a member and, recursive
\* being True by default, so does everything below it, as <arcname>/<name>
SubDir == File("sub", "")
Add(d) ==
    d.out.files \cup
    (IF d.out.deep # {} THEN {SubDir} \cup {File("sub/" \o f.stem, f.ext) : f \in d.out.deep} ELSE {})

\* tar.add(file, arcname=file.name) for every entry of outputDir
Archive(d) == Dir(TRUE, Add(d))

PackageService ==
    /\ Enter("package")
    /\ pre' = fs[Head(queue)]
    /\ log' = <<>>
    /\ LET u == Head(queue) IN
       IF variant = "NBT"
       THEN \* FindServiceDir is defined nowhere: NameError
            /\ report' = "Exception" /\ bpc' = "raised" /\ UNCHANGED fs
       ELSE IF ~fs[u].out.exists
            THEN Return("NothingToPackage") /\ UNCHANGED fs
            ELSE \E ok \in BOOLEAN :
                   IF ok
                   THEN /\ fs' = [fs EXCEPT ![u].tar = Archive(fs[u])]
                        /\ Return("Packaged")
                   ELSE \* tarfile raises (open or add): no handler
                        /\ fs' \in {fs, [fs EXCEPT ![u].tar = Dir(TRUE, {})]}
                        /\ report' = "Exception" /\ bpc' = "raised"
    /\ UNCHANGED callRest

\* ------------------------------------------------------------ specification
BuildSteps ==
    \/ BuildServiceBegin \/ ProtoGen \/ CollectSources \/ Detect
    \/ Compile \/ Link \/ Stage \/ BuildServiceEnd

Next ==
    \/ \E a \in Args : Build(a)
    \/ \E a \in Args : Clean(a)
    \/ \E a \in Args : Package(a)
    \/ BuildSteps
    \/ CleanService
    \/ PackageService
    \/ ServiceReturns
    \/ MainExit
    \/ MainTraceback

Spec == Init /\ [][Next]_vars

\* ---------------------------------------------------------------- discovery
\* a *.Build.py file: "ok" defines ServiceMeta with a name, "nometa" loads but
\* defines no ServiceMeta, "broken" raises while it is loaded (exec_module)
Desc(kind, name) == [kind |-> kind, name |-> name]
DescShapes == {Desc("ok", "A"), Desc("ok", "B"), Desc("nometa", None), Desc("broken", None)}

\* an entry of a root: a plain file, or a service directory with the
\* *.Build.py files of Meta/ and of UnitTest/Meta/
Entry(isdir, m, t) == [isdir |-> isdir, meta |-> m, ut |-> t]
EntryShapes ==
    {Entry(FALSE, <<>>, <<>>)} \cup
    {Entry(TRUE, m, t) : m \in {<<>>} \cup {<<d>> : d \in DescShapes},
                         t \in {<<>>, <<Desc("ok", "A")>>}}

Listings(n) == UNION {[1..k -> EntryShapes] : k \in 0..n}

\* one root (BuildSystem engine) or two (NutBuildTools engine: MicroServices,
\* then ServiceAllocate)
Trees == {<<r>> : r \in Listings(MaxDirs)} \cup
         {<<r, q>> : r \in Listings(MaxDirs), q \in {<<>>} \cup {<<e>> : e \in EntryShapes}}

\* the descriptor files one entry contributes, in the order they are loaded,
\* each with the place it was found at
At(r, i, slot, d) == [root |-> r, dir |-> i, slot |-> slot, kind |-> d.kind, name |-> d.name]

\* BuildSystem loader: Meta/<dir>.Build.py if it exists
FilesBS(r, i) == [k \in 1..Len(scan[r][i].meta) |-> At(r, i, "Meta", scan[r][i].meta[k])]

\* NutBuildTools loader: directories only; Meta/*.Build.py, then UnitTest/Meta/*.Build.py
FilesNBT(r, i) ==
    IF ~scan[r][i].isdir THEN <<>>
    ELSE [k \in 1..Len(scan[r][i].meta) |-> At(r, i, "Meta", scan[r][i].meta[k])]
         \o [k \in 1..Len(scan[r][i].ut) |-> At(r, i, "UnitTest/Meta", scan[r][i].ut[k])]

Files(r, i) == IF variant = "BS" THEN FilesBS(r, i) ELSE FilesNBT(r, i)

\* services[key] = value on a dict kept in insertion order
PutKeepFirst(m, k, v) ==
    IF \E i \in 1..Len(m) : m[i][1] = k THEN m ELSE Append(m, <<k, v>>)
Put(m, k, v) ==
    IF \E i \in 1..Len(m) : m[i][1] = k
    THEN [i \in 1..Len(m) |-> IF m[i][1] = k THEN <<k, v>> ELSE m[i]]
    ELSE Append(m, <<k, v>>)

\* dict.update(other)
RECURSIVE Update(_, _)
Update(m, other) ==
    IF other = <<>> THEN m
    ELSE Update(Put(m, other[1][1], other[1][2]), Tail(other))

\* whether loading the file raises: exec_module on a broken file; the
\* BuildSystem loader also on module.ServiceMeta of a file that has none
RaisesBS(f) == f.kind \in {"broken", "nometa"}
RaisesNBT(f) == f.kind = "broken"
Raises(f) == IF variant = "BS" THEN RaisesBS(f) ELSE RaisesNBT(f)

\* the body of the loader's loop for the files of one entry
RECURSIVE LoadFiles(_, _)
LoadFiles(m, files) ==
    IF files = <<>> THEN [raised |-> FALSE, map |-> m]
    ELSE IF Raises(files[1]) THEN [raised |-> TRUE, map |-> m]
    ELSE IF files[1].kind = "ok" THEN LoadFiles(Put(m, files[1].name, files[1]), Tail(files))
    ELSE LoadFiles(m, Tail(files))

\* the files whose top-level code spec.loader.exec_module has run: every file
\* of the entry up to and including the first one that raises
RECURSIVE Executed(_)
Executed(files) ==
    IF files = <<>> THEN <<>>
    ELSE IF Raises(files[1]) THEN <<files[1]>>
    ELSE <<files[1]>> \o Executed(Tail(files))

\* LoadAllServiceMeta, one iteration of `for svc_dir in parent_dir.iterdir()`
LoadAllServiceMeta ==
    /\ spc = "scan" /\ sidx <= Len(scan[ridx])
    /\ LET r == LoadFiles(loaded, Files(ridx, sidx)) IN
       IF r.raised
       THEN spc' = "failed" /\ UNCHANGED <<sidx, loaded>>
       ELSE loaded' = r.map /\ sidx' = sidx + 1 /\ UNCHANGED spc
    /\ ran' = ran \o Executed(Files(ridx, sidx))
    /\ UNCHANGED <<scan, ridx, found, printed, envVars, fs, engineVars, buildVars, genVars, svcVars>>

\* BuildEngine.__init__: the loader returned, its dict is merged into self.services
EngineInit ==
    /\ spc = "scan" /\ sidx > Len(scan[ridx])
    /\ found' = Update(found, loaded)
    /\ loaded' = <<>>
    /\ IF ridx < Len(scan)
       THEN ridx' = ridx + 1 /\ sidx' = 1 /\ UNCHANGED <<spc, services>>
       ELSE /\ spc' = "done" /\ UNCHANGED <<ridx, sidx>>
            /\ services' = [i \in 1..Len(found') |-> found'[i][1]]
    /\ UNCHANGED <<scan, ran, printed, variant, platform, avail, meta, protoc, fs, engineVars, buildVars, genVars, svcVars>>

\* BuildEngine.ListServices: one line per value of self.services, in the
\* order the dict holds them
ListServices ==
    /\ spc = "done"
    /\ printed' = [i \in 1..Len(found) |-> found[i][2].name]
    /\ spc' = "listed"
    /\ UNCHANGED <<scan, ridx, sidx, loaded, found, ran, envVars, fs, engineVars, buildVars, genVars, svcVars>>

InitDiscover ==
    /\ variant \in {"BS", "NBT"} /\ platform = "Linux" /\ avail = {}
    /\ meta = [u \in Units |-> MetaOf(u, <<>>)]
    /\ fs = [u \in Units |-> DiskOf({}, {}, {}, Absent, Absent)]
    /\ services = <<>> /\ protoc = "unset"
    /\ cmd = None /\ arg = None /\ epc = "init" /\ queue = <<>> /\ visited = <<>>
    /\ results = <<>> /\ exitCode = -1 /\ hist = <<>>
    /\ InitBuild
    /\ scan \in Trees /\ spc = "scan" /\ ridx = 1 /\ sidx = 1 /\ loaded = <<>> /\ found = <<>>
    /\ ran = <<>> /\ printed = <<>>
    /\ NoGen

NextDiscover == LoadAllServiceMeta \/ EngineInit \/ ListServices

SpecDiscover == InitDiscover /\ [][NextDiscover]_vars

\* ------------------------------------------------------------ clean, by itself
\* CleanService on every combination of the two directories being there or not
InitClean ==
    /\ variant \in {"BS", "NBT"} /\ platform = "Linux" /\ avail = {"g++"}
    /\ meta = [u \in Units |-> MetaOf(u, <<>>)]
    /\ services = <<"A", "B">> /\ protoc = "unset"
    /\ \E oa \in OutShapes, ia \in OutShapes, ob \in {Absent, Dir(TRUE, {})}, ib \in {Absent, Dir(TRUE, {})} :
          /\ variant = "BS" => ia = Absent /\ ib = Absent
          /\ fs = [u \in Units |-> IF u = "A" THEN DiskOf({}, {File("a", ".cpp")}, {"cfg"}, oa, ia)
                                   ELSE DiskOf({}, {File("m", ".cpp")}, {}, ob, ib)]
    /\ InitEngine /\ InitBuild /\ NoScan /\ NoGen

NextClean ==
    \/ \E a \in Args : Clean(a)
    \/ CleanService
    \/ ServiceReturns
    \/ MainExit

SpecClean == InitClean /\ [][NextClean]_vars

\* -------------------------------------------------- the tool probes, by themselves
\* what can be installed on a machine of the platform
Installable(plat) ==
    IF plat = "Windows"
    THEN {"g++.exe", "C:/MinGW/bin/g++.exe", "cl.exe", "VS/cl.exe", "Reg/cl.exe",
          "Tools/protoc/bin/protoc.exe", "protoc"}
    ELSE {"g++", "clang++", "Tools/protoc/bin/protoc", "protoc"}

InitTools ==
    /\ variant \in {"BS", "NBT"} /\ platform \in {"Linux", "Windows"}
    /\ avail \in SUBSET Installable(platform)
    /\ meta = [u \in Units |-> MetaOf(u, <<>>)]
    /\ fs = [u \in Units |-> DiskOf({}, {}, {}, Absent, Absent)]
    /\ services = <<>> /\ protoc = "unset"
    /\ InitEngine /\ InitBuild /\ NoScan /\ NoGen

\* a call of DetectCompiler()
DetectCompilerCall ==
    /\ bpc = "idle"
    /\ tools' = DetectCompiler /\ bpc' = "probed"
    /\ UNCHANGED <<cur, protoQ, srcQ, stageQ, objFiles, log, report, pre, envVars, fs, engineVars,
                   scanVars, svcVars, genVars>>

\* a call of FindProtoc(project_root)
FindProtocCall ==
    /\ protoc = "unset"
    /\ protoc' = FindProtoc(platform, avail)
    /\ UNCHANGED <<variant, platform, avail, meta, services, fs, engineVars, buildVars, scanVars, svcVars, genVars>>

NextTools == DetectCompilerCall \/ FindProtocCall

SpecTools == InitTools /\ [][NextTools]_vars

\* ======================================================= project generator
\* Tools/ProjectGenerator: ProjectDiscoverer with MetadataParser and
\* FileCollector, then the emitters (Xcode, Visual Studio, clangd).

\* number of project directories below Source/
MaxProjects == 2

\* --------------------------------------------------------- descriptor text
\* a node of the syntax tree ast.parse builds for the value of an assignment:
\* the node class, for a Constant the type and text of its value, the
\* elements of a List (the operand of a UnaryOp), the <<key, value>> pairs of
\* a Dict
Node(t, kind, v, elts, items) == [t |-> t, kind |-> kind, v |-> v, elts |-> elts, items |-> items]
Str(x) == Node("Constant", "str", x, <<>>, <<>>)
Num(x) == Node("Constant", "num", x, <<>>, <<>>)
NoneLit == Node("Constant", "none", "", <<>>, <<>>)
Neg(n) == Node("UnaryOp", "", "-", <<n>>, <<>>)
ListNode(elts) == Node("List", "", "", elts, <<>>)
DictNode(items) == Node("Dict", "", "", <<>>, items)
CallNode == Node("Call", "", "", <<>>, <<>>)
NameNode == Node("Name", "", "", <<>>, <<>>)

\* a Python value: str, num, None, list, or dict (its items in insertion order)
Py(t, v, elts, items) == [py |-> t, v |-> v, elts |-> elts, items |-> items]
PyStr(x) == Py("str", x, <<>>, <<>>)
PyNum(x) == Py("num", x, <<>>, <<>>)
PyNone == Py("none", "", <<>>, <<>>)
PyList(xs) == Py("list", "", xs, <<>>)
PyDict(items) == Py("dict", "", <<>>, items)

\* value_node.value of an ast.Constant
ConstantValue(n) ==
    IF n.kind = "str" THEN PyStr(n.v)
    ELSE IF n.kind = "num" THEN PyNum(n.v)
    ELSE PyNone

RECURSIVE ExtractValueFromAst(_), ExtractDictFromAst(_), ExtractItems(_, _), ExtractElts(_)

\* MetadataParser.ExtractValueFromAst: None stands for "no value"
ExtractValueFromAst(n) ==
    IF n.t = "Constant" THEN ConstantValue(n)
    ELSE IF n.t = "List" THEN PyList(ExtractElts(n.elts))
    ELSE IF n.t = "Dict" THEN ExtractDictFromAst(n)
    ELSE PyNone

ExtractElts(elts) ==
    IF elts = <<>> THEN <<>>
    ELSE <<ExtractValueFromAst(elts[1])>> \o ExtractElts(Tail(elts))

\* the loop of ExtractDictFromAst: keys that are not string constants are
\* skipped, and so are keys whose extracted value is None
ExtractItems(result, items) ==
    IF items = <<>> THEN result
    ELSE LET k == items[1][1]
             val == ExtractValueFromAst(items[1][2])
         IN  IF ~(k.t = "Constant" /\ k.kind = "str") THEN ExtractItems(result, Tail(items))
             ELSE IF val = PyNone THEN ExtractItems(result, Tail(items))
             ELSE ExtractItems(Put(result, PyStr(k.v), val), Tail(items))

ExtractDictFromAst(n) == PyDict(ExtractItems(<<>>, n.items))

\* the value Python gives the expression when the file is executed, for an
\* expression built of literals only
RECURSIVE Eval(_), EvalItems(_, _), EvalElts(_)
Eval(n) ==
    IF n.t = "Constant" THEN ConstantValue(n)
    ELSE IF n.t = "UnaryOp" THEN PyNum("-" \o Eval(n.elts[1]).v)
    ELSE IF n.t = "List" THEN PyList(EvalElts(n.elts))
    ELSE PyDict(EvalItems(<<>>, n.items))

EvalElts(elts) ==
    IF elts = <<>> THEN <<>> ELSE <<Eval(elts[1])>> \o EvalElts(Tail(elts))

EvalItems(result, items) ==
    IF items = <<>> THEN result
    ELSE EvalItems(Put(result, Eval(items[1][1]), Eval(items[1][2])), Tail(items))

\* a *.Build.py file: text that does not parse, or its top-level assignments
PyFile(fname, ok, stmts) == [lang |-> "py", fname |-> fname, ok |-> ok, stmts |-> stmts, cls |-> None]
Assign(target, value) == [target |-> target, value |-> value]

\* a *.Build.cs file: the class derived from NutTarget, None when there is none
CsFile(fname, cls) == [lang |-> "cs", fname |-> fname, ok |-> TRUE, stmts |-> <<>>, cls |-> cls]

\* the first assignment `ServiceMeta = {...}` that ast.walk comes across
FirstServiceMeta(stmts) ==
    LET hits == {i \in 1..Len(stmts) : stmts[i].target = "ServiceMeta" /\ stmts[i].value.t = "Dict"}
    IN  IF hits = {} THEN 0 ELSE CHOOSE i \in hits : \A j \in hits : i <= j

Parsed(data, logged) == [data |-> data, logged |-> logged]
EmptyDict == PyDict(<<>>)

\* MetadataParser.ParsePythonBuildFile
ParsePythonBuildFile(f) ==
    IF ~f.ok THEN Parsed(EmptyDict, <<[level |-> "error", file |-> f.fname]>>)
    ELSE IF FirstServiceMeta(f.stmts) = 0
         THEN Parsed(EmptyDict, <<[level |-> "warning", file |-> f.fname]>>)
         ELSE Parsed(ExtractDictFromAst(f.stmts[FirstServiceMeta(f.stmts)].value), <<>>)

\* class_name.replace('Target', '')
StripTarget(cls) == IF cls = "UTarget" THEN "U" ELSE IF cls = "VTarget" THEN "V" ELSE cls

\* MetadataParser.ParseCsharpBuildFile
ParseCsharpBuildFile(f) ==
    IF f.cls = None THEN Parsed(EmptyDict, <<[level |-> "warning", file |-> f.fname]>>)
    ELSE Parsed(PyDict(<< <<PyStr("name"), PyStr(StripTarget(f.cls))>>,
                          <<PyStr("type"), PyStr("csharp_target")>>,
                          <<PyStr("class_name"), PyStr(f.cls)>> >>), <<>>)


\* ----------------------------------------------------------- file collector
\* a file below a project directory: the canonical subdirectory it lies under
\* ("" for the project directory itself), Path.stem and Path.suffix of its
\* name, whether the name starts with a dot, and whether it holds a main
\* function (name *Main.cpp / main.cpp, or `int main(` / `static void Main(`
\* in its text)
Member(dir, stem, ext, dot, main) ==
    [dir |-> dir, stem |-> stem, ext |-> ext, dot |-> dot, main |-> main]

HEADER_EXTENSIONS == {".h", ".hpp", ".hxx", ".hh"}
SOURCE_EXTENSIONS == {".cpp", ".cxx", ".cc", ".c", ".cs"}
CONFIG_EXTENSIONS == {".json", ".xml", ".yaml", ".yml", ".ini"}
META_EXTENSIONS == {".py", ".cs", ".md", ".txt"}
PROTO_EXTENSIONS == {".proto"}

FileGroup == <<"Headers", "Sources", "Meta", "Configs">>

\* str.lower() on a suffix
Lower(ext) == IF ext = ".CPP" THEN ".cpp" ELSE IF ext = ".H" THEN ".h" ELSE ext

\* FileCollector._DetermineFileGroup(file_extension, directory)
DetermineFileGroup(ext, dir) ==
    IF dir = "Meta" /\ ext \in META_EXTENSIONS THEN "Meta"
    ELSE IF dir = "Configs" /\ ext \in CONFIG_EXTENSIONS THEN "Configs"
    ELSE IF dir = "Protos" THEN "Meta"
    ELSE IF ext \in HEADER_EXTENSIONS THEN "Headers"
    ELSE IF ext \in SOURCE_EXTENSIONS THEN "Sources"
    ELSE IF ext \in CONFIG_EXTENSIONS THEN "Configs"
    ELSE IF ext \in PROTO_EXTENSIONS THEN "Meta"
    ELSE "Meta"

\* ProjectInfo._GetFileType
GetFileType(ext) ==
    IF ext \in {".h"} THEN "sourcecode.c.h"
    ELSE IF ext \in {".hpp", ".hxx"} THEN "sourcecode.cpp.h"
    ELSE IF ext \in {".cpp", ".cxx", ".cc"} THEN "sourcecode.cpp.cpp"
    ELSE IF ext = ".c" THEN "sourcecode.c.c"
    ELSE IF ext = ".cs" THEN "sourcecode.cs"
    ELSE IF ext = ".py" THEN "text.script.python"
    ELSE IF ext = ".json" THEN "text.json"
    ELSE IF ext = ".xml" THEN "text.xml"
    ELSE IF ext = ".txt" THEN "text.plain"
    ELSE "text"

FileInfo(f, group) == [path |-> f, group |-> group, file_type |-> GetFileType(Lower(f.ext))]

\* ProjectInfo.AddFile
AddFile(files, f, group) == [files EXCEPT ![group] = Append(@, FileInfo(f, group))]

\* FileCollector._CollectDirectoryFiles: the loop over directory.rglob("*")
RECURSIVE CollectDirectoryFiles(_, _, _, _)
CollectDirectoryFiles(files, listing, dir, allowed) ==
    IF listing = <<>> THEN files
    ELSE LET f == listing[1]
             g == DetermineFileGroup(Lower(f.ext), dir)
         IN  IF f.dot \/ g \notin allowed
             THEN CollectDirectoryFiles(files, Tail(listing), dir, allowed)
             ELSE CollectDirectoryFiles(AddFile(files, f, g), Tail(listing), dir, allowed)

\* FileCollector._CollectProjectFiles: project files directly in the directory
RECURSIVE CollectProjectFiles(_, _)
CollectProjectFiles(files, listing) ==
    IF listing = <<>> THEN files
    ELSE IF Lower(listing[1].ext) \in {".csproj", ".vcxproj", ".pbxproj"}
         THEN CollectProjectFiles(AddFile(files, listing[1], "Meta"), Tail(listing))
         ELSE CollectProjectFiles(files, Tail(listing))

\* what rglob("*") returns for one canonical subdirectory of a project directory
Under(u, dir) == SelectSeq(u.files, LAMBDA f : f.dir = dir)

NoFiles == [g \in Range(FileGroup) |-> <<>>]

\* FileCollector.CollectFiles
CollectFiles(u) ==
    LET s == CollectDirectoryFiles(NoFiles, Under(u, "Sources"), "Sources", {"Headers", "Sources"})
        m == CollectDirectoryFiles(s, Under(u, "Meta"), "Meta", {"Meta"})
        c == CollectDirectoryFiles(m, Under(u, "Configs"), "Configs", {"Configs"})
        p == CollectDirectoryFiles(c, Under(u, "Protos"), "Protos", {"Meta"})
    IN  CollectProjectFiles(p, Under(u, ""))


\* ------------------------------------------------------- project discoverer
\* a project directory Source/<group>/<name>: the descriptor files of its
\* Meta directory in glob order, every file below its canonical
\* subdirectories in rglob order (the descriptors among them), and the files
\* lying directly in it
DescMember(d) == Member("Meta", d.fname, IF d.lang = "py" THEN ".py" ELSE ".cs", FALSE, FALSE)

ProjectDir(group, name, descs, others, root) ==
    [group |-> group, name |-> name, meta |-> descs,
     files |-> [i \in 1..Len(descs) |-> DescMember(descs[i])] \o others,
     root |-> root]

HasCsproj(u) == \E i \in 1..Len(u.root) : u.root[i].ext = ".csproj"

\* ProjectDiscoverer._FindProjectDirectories: the directories two levels above
\* a *.Build.cs / *.Build.py file and those holding a *.csproj file, sorted
FindProjectDirectories(t) == SelectSeq(t, LAMBDA u : u.meta # <<>> \/ HasCsproj(u))

\* ProjectDiscoverer._DetermineProjectType
DetermineProjectType(u) ==
    IF HasCsproj(u)
    THEN IF \E i \in 1..Len(u.files) : u.files[i].ext = ".cs" /\ u.files[i].main
         THEN "csharp_executable" ELSE "csharp_library"
    ELSE IF u.meta # <<>>
         THEN IF \E i \in 1..Len(u.files) :
                    u.files[i].dir = "Sources" /\ u.files[i].ext = ".cpp" /\ u.files[i].main
              THEN "executable" ELSE "static_library"
         ELSE None

\* ProjectDiscoverer._ParseBuildMetadata: the first *.Build.py file decides,
\* a *.Build.cs file is looked at only when there is no *.Build.py
ParseBuildMetadata(u) ==
    LET py == SelectSeq(u.meta, LAMBDA d : d.lang = "py")
        cs == SelectSeq(u.meta, LAMBDA d : d.lang = "cs")
    IN  IF py # <<>> THEN ParsePythonBuildFile(py[1])
        ELSE IF cs # <<>> THEN ParseCsharpBuildFile(cs[1])
        ELSE Parsed(EmptyDict, <<>>)

is_csharp(p) == p.project_type \in {"csharp_executable", "csharp_library"}
is_executable(p) == p.project_type \in {"executable", "csharp_executable"}

\* ProjectDiscoverer._AnalyzeProjectDirectory: the ProjectInfo of a directory
ProjectInfo(u) ==
    [name |-> u.name, group_name |-> u.group, project_type |-> DetermineProjectType(u),
     build_metadata |-> ParseBuildMetadata(u).data, files |-> CollectFiles(u), dir |-> u]

\* the parser's log records, each naming the path of the file it is about
LoggedFor(u, logged) ==
    [i \in 1..Len(logged) |-> [level |-> logged[i].level, group |-> u.group,
                               name |-> u.name, file |-> logged[i].file]]

\* DiscoverAllProjects, one iteration of `for project_dir in ...`
AnalyzeProjectDirectory ==
    /\ gpc = "discover" /\ didx <= Len(FindProjectDirectories(tree))
    /\ LET u == FindProjectDirectories(tree)[didx] IN
       IF DetermineProjectType(u) = None
       THEN UNCHANGED <<projects, warnings>>
       ELSE /\ projects' = Append(projects, ProjectInfo(u))
            /\ warnings' = warnings \o LoggedFor(u, ParseBuildMetadata(u).logged)
    /\ didx' = didx + 1
    /\ UNCHANGED <<tree, gpc, gexit, emitVars, envVars, fs, engineVars, buildVars, scanVars, svcVars>>

\* cli.DiscoverProjects returned: main leaves with status 1 when the list is
\* empty, and goes on to the command otherwise
DiscoverProjects ==
    /\ gpc = "discover" /\ didx > Len(FindProjectDirectories(tree))
    /\ IF projects = <<>> THEN gpc' = "exited" /\ gexit' = 1
       ELSE gpc' = "ready" /\ UNCHANGED gexit
    /\ UNCHANGED <<tree, didx, projects, warnings, emitVars, envVars, fs, engineVars, buildVars, scanVars, svcVars>>


\* ------------------------------------------- inputs of the project generator
\* the ServiceMeta mappings tried: the layout the repository's descriptors
\* use, nested maps and empty lists, None and negative numbers as values,
\* calls and names as values or elements, a key that is no string, a key
\* written twice
Sources2 == ListNode(<<Str("a.cpp"), Str("b.cpp")>>)
DictShapes ==
    { DictNode(<< <<Str("name"), Str("U")>>, <<Str("sources"), Sources2>>, <<Str("output"), Str("UMain")>> >>),
      DictNode(<< <<Str("name"), Str("U")>>, <<Str("deps"), DictNode(<< <<Str("k"), ListNode(<<Str("x")>>)>> >>)>>,
                  <<Str("sources"), ListNode(<<>>)>> >>),
      DictNode(<< <<Str("name"), Str("U")>>, <<Str("output"), NoneLit>> >>),
      DictNode(<< <<Str("name"), Str("U")>>, <<Str("port"), Neg(Num("1"))>> >>),
      DictNode(<< <<Str("name"), Str("U")>>, <<Str("ports"), ListNode(<<NoneLit, Num("8080")>>)>> >>),
      DictNode(<< <<Str("name"), Str("U")>>, <<Str("sources"), ListNode(<<Str("a.cpp"), CallNode>>)>> >>),
      DictNode(<< <<Str("name"), NameNode>>, <<Str("output"), Str("UMain")>> >>),
      DictNode(<< <<Num("1"), Str("x")>>, <<Str("name"), Str("U")>> >>),
      DictNode(<< <<Str("name"), Str("U")>>, <<Str("name"), Str("V")>> >>) }

Usual == CHOOSE d \in DictShapes : Len(d.items) = 3

PyShapes ==
    {PyFile("U.Build", TRUE, <<Assign("ServiceMeta", d)>>) : d \in DictShapes} \cup
    { PyFile("U.Build", TRUE, <<Assign("LibNutMeta", Usual)>>),
      PyFile("U.Build", TRUE, <<Assign("ServiceMeta", CallNode)>>),
      PyFile("U.Build", TRUE, <<Assign("DockerMeta", Usual), Assign("ServiceMeta", Usual)>>),
      PyFile("U.Build", TRUE, <<>>),
      PyFile("U.Build", FALSE, <<>>) }

CsShapes == {CsFile("U.Build", "UTarget"), CsFile("U.Build", None)}

MetaShapes ==
    {<<d>> : d \in PyShapes \cup CsShapes} \cup
    { <<PyFile("U.Build", TRUE, <<>>), CsFile("U.Build", "UTarget")>> }

UsualMeta == <<PyFile("U.Build", TRUE, <<Assign("ServiceMeta", Usual)>>)>>

\* the files tried below the canonical subdirectories
UsualFiles ==
    << Member("Sources", "a", ".cpp", FALSE, FALSE), Member("Sources", "UMain", ".cpp", FALSE, TRUE),
       Member("Sources", "h", ".hpp", FALSE, FALSE), Member("Configs", "c", ".json", FALSE, FALSE),
       Member("Protos", "p", ".proto", FALSE, FALSE) >>
FileShapes ==
    { <<>>, UsualFiles,
      << Member("Sources", "B", ".CPP", FALSE, FALSE), Member("Sources", "r", ".txt", FALSE, FALSE),
         Member("Sources", "c", ".json", FALSE, FALSE), Member("Sources", "hid", ".cpp", TRUE, FALSE) >>,
      << Member("Meta", "x", ".h", FALSE, FALSE), Member("Meta", "notes", ".md", FALSE, FALSE),
         Member("Meta", "t", ".toml", FALSE, FALSE), Member("Configs", "s", ".sh", FALSE, FALSE),
         Member("Configs", "k", ".cpp", FALSE, FALSE), Member("Protos", "q", ".cpp", FALSE, FALSE) >>,
      << Member("Sources", "x", ".cs", FALSE, FALSE), Member("Sources", "a", ".c", FALSE, FALSE) >>,
      << Member("Sources", "hid", ".cpp", TRUE, FALSE) >> }

Csproj == Member("", "U", ".csproj", FALSE, FALSE)
RootCpp == Member("", "u2", ".cpp", FALSE, FALSE)
CsFiles == << Member("Sources", "Program", ".cs", FALSE, TRUE) >>

Content(descs, others, root) == [meta |-> descs, others |-> others, root |-> root]

ContentShapes ==
    {Content(m, UsualFiles, <<>>) : m \in MetaShapes} \cup
    {Content(UsualMeta, f, r) : f \in FileShapes, r \in {<<>>, <<RootCpp>>}} \cup
    { Content(<<>>, UsualFiles, <<>>), Content(<<>>, CsFiles, <<Csproj>>),
      Content(<<CsFile("U.Build", "UTarget")>>, <<>>, <<Csproj>>) }

\* the places of project directories below Source/, in sorted order of path
Places == << [group |-> "Programs", name |-> "U"], [group |-> "Runtime", name |-> "U"],
             [group |-> "Runtime", name |-> "V"] >>

Asc(S) == CHOOSE s \in Orders(S) : \A i, j \in 1..Len(s) : i < j => s[i] < s[j]

TreesOver(shapes, n) ==
    UNION { { [i \in 1..Cardinality(S) |->
                 ProjectDir(Places[Asc(S)[i]].group, Places[Asc(S)[i]].name,
                            c[Asc(S)[i]].meta, c[Asc(S)[i]].others, c[Asc(S)[i]].root)]
              : c \in [S -> shapes] }
            : S \in {T \in SUBSET (1..Len(Places)) : Cardinality(T) <= n} }

\* the build engine is not part of a run of the project generator
NoEngine ==
    /\ variant = "BS" /\ platform = "Linux" /\ avail = {}
    /\ meta = [u \in Units |-> MetaOf(u, <<>>)]
    /\ fs = [u \in Units |-> DiskOf({}, {}, {}, Absent, Absent)]
    /\ services = <<>> /\ protoc = "unset"
    /\ cmd = None /\ arg = None /\ epc = "init" /\ queue = <<>> /\ visited = <<>>
    /\ results = <<>> /\ exitCode = -1 /\ hist = <<>>
    /\ InitBuild /\ NoScan /\ NoService

\* cli.main after the checks of the project root: discovery starts
InitProjects ==
    /\ NoEngine
    /\ tree \in TreesOver(ContentShapes, MaxProjects)
    /\ gpc = "discover" /\ didx = 1 /\ projects = <<>> /\ warnings = <<>> /\ gexit = -1
    /\ NoEmit

NextProjects == AnalyzeProjectDirectory \/ DiscoverProjects

SpecProjects == InitProjects /\ [][NextProjects]_vars


\* ------------------------------------------------------------ the emitters
MaxRuns == 2

\* the text of a generated file, as the list of its lines that depend on the
\* projects: each line a tag and up to three strings
Line(tag, a, b, c) == [tag |-> tag, a |-> a, b |-> b, c |-> c]

RECURSIVE Flat(_)
Flat(ss) == IF ss = <<>> THEN <<>> ELSE ss[1] \o Flat(Tail(ss))

\* project_info.path and file_info.path, relative to the project root
ProjectPath(p) == "Source/" \o p.group_name \o "/" \o p.name
FilePath(p, f) ==
    ProjectPath(p) \o (IF f.dir = "" THEN "" ELSE "/" \o f.dir) \o "/"
                   \o (IF f.dot THEN "." ELSE "") \o f.stem \o f.ext

\* ProjectInfo.GetAllFiles
GetAllFiles(p) == Flat([i \in 1..Len(FileGroup) |-> p.files[FileGroup[i]]])

\* UuidGenerator: BaseGenerator.__init__ builds it with deterministic = False.
\* generate() with no seed is _GenerateRandom, uuid4: the k-th identifier a
\* generator object hands out is fixed by the random state of its process
\* (seed) and by k.
Draws == {"r1", "r2"}
UuidGenerator(seed) == [deterministic |-> FALSE, seed |-> seed, n |-> 0]
GenerateRandom(g, k) == g.seed \o "-" \o ToString(g.n + k)
GenerateDeterministic(seed, k) == "sha256:" \o seed \o ToString(k)
generate(g, seed, k) ==
    IF g.deterministic /\ seed # None THEN GenerateDeterministic(seed, g.n + k)
    ELSE GenerateRandom(g, k)

\* a GUID taken from the random stream of the generator object instead
GenerateGuidRandom(name) == "{" \o GenerateRandom(rng, 1) \o ":" \o name \o "}"

\* UuidGenerator.GenerateGuid: the MD5 digest of the name, formatted; distinct
\* names are taken to have distinct digests
GenerateGuid(name) == "{MD5:" \o name \o "}"

\* the order of str on the project names that occur
NameRank(n) == CHOOSE i \in 1..Len(Places) : Places[i].name = n /\ \A j \in 1..(i - 1) : Places[j].name # n

\* list.sort(key = lambda p: p.name), a stable sort
RECURSIVE SortByName(_)
SortByName(ps) ==
    IF ps = <<>> THEN <<>>
    ELSE LET m == CHOOSE i \in 1..Len(ps) :
                     /\ \A j \in 1..Len(ps) : NameRank(ps[i].name) <= NameRank(ps[j].name)
                     /\ \A j \in 1..(i - 1) : NameRank(ps[j].name) > NameRank(ps[i].name)
         IN  <<ps[m]>> \o SortByName(SubSeq(ps, 1, m - 1) \o SubSeq(ps, m + 1, Len(ps)))

\* WorkspaceGenerator._GroupProjects: the groups in order of first occurrence,
\* the projects of each sorted by name
RECURSIVE GroupNames(_)
GroupNames(ps) ==
    IF ps = <<>> THEN <<>>
    ELSE LET r == GroupNames(SubSeq(ps, 1, Len(ps) - 1))
             g == ps[Len(ps)].group_name
         IN  IF g \in Range(r) THEN r ELSE Append(r, g)

GroupProjects(ps) ==
    [i \in 1..Len(GroupNames(ps)) |->
        [name |-> GroupNames(ps)[i],
         projects |-> SortByName(SelectSeq(ps, LAMBDA p : p.group_name = GroupNames(ps)[i]))]]

\* WorkspaceGenerator._GenerateXcodeWorkspace: contents.xcworkspacedata
XcodeWorkspace(ps) ==
    Flat([i \in 1..Len(GroupProjects(ps)) |->
        LET g == GroupProjects(ps)[i]
            cpp == SelectSeq(g.projects, LAMBDA p : ~is_csharp(p))
        IN  IF cpp = <<>> THEN <<>>
            ELSE <<Line("Group", g.name, "", "")>> \o
                 [k \in 1..Len(cpp) |->
                     Line("FileRef", "Projects/" \o g.name \o "/" \o cpp[k].name \o ".xcodeproj", "", "")]])

\* WorkspaceGenerator._GenerateVsSolution: Nut.sln
VsSolution(ps) ==
    LET groups == GroupProjects(ps)
        all == Flat([i \in 1..Len(groups) |->
                   [k \in 1..Len(groups[i].projects) |-> [g |-> groups[i].name, p |-> groups[i].projects[k]]]])
        file(e) == IF is_csharp(e.p) THEN ProjectPath(e.p) \o "/" \o e.p.name \o ".csproj"
                   ELSE "Projects/" \o e.g \o "/" \o e.p.name \o ".vcxproj"
    IN  [i \in 1..Len(all) |-> Line("Project", all[i].p.name, file(all[i]), GenerateGuid(all[i].p.name))] \o
        [i \in 1..Len(groups) |->
            Line("Folder", groups[i].name, groups[i].name, GenerateGuid("Folder_" \o groups[i].name))] \o
        [i \in 1..Len(all) |->
            Line("Config", GenerateGuid(all[i].p.name), IF is_csharp(all[i].p) THEN "Any CPU" ELSE "x64", "")] \o
        [i \in 1..Len(all) |->
            Line("Nested", GenerateGuid(all[i].p.name), GenerateGuid("Folder_" \o all[i].g), "")]

\* XCodeProjectGenerator._GenerateUuids: the keys of the table, in the order
\* the identifiers are drawn
UuidKeys(p) ==
    << "project", "main_group", "target", "product_ref", "build_phase_sources",
       "config_list_project", "config_list_target", "config_debug_project",
       "config_release_project", "config_debug_target", "config_release_target",
       "group_headers", "group_sources", "group_meta", "group_configs" >> \o
    Flat([i \in 1..Len(GetAllFiles(p)) |->
            <<"file_refs/file_" \o ToString(i - 1)>> \o
            (IF GetAllFiles(p)[i].group = "Sources"
             THEN <<"build_files/file_" \o ToString(i - 1)>> ELSE <<>>)])

GenerateUuids(g, p) ==
    [k \in 1..Len(UuidKeys(p)) |-> [key |-> UuidKeys(p)[k], id |-> generate(g, None, k)]]

\* the keys XmlBuilder.BuildPbxproj looks up in project_data['uuids']
PbxprojKeys ==
    { "project", "config_list_project", "main_group", "target", "product_ref",
      "config_list_target", "build_phase_sources", "build_phase_nutbuild" }

\* XmlBuilder._GenerateXcodeNutBuildScript / VcxprojGenerator._GenerateNutBuildCommand:
\* the line of the script that starts the build: the program run, the value
\* of --target, the values of --platform and --configuration
NutBuildCommand(tag, name, os, configuration) ==
    Line(tag, "NUTBUILD_BINARY", name, os \o " " \o configuration)

IdOf(uuids, key) == (CHOOSE e \in Range(uuids) : e.key = key).id

\* XCodeProjectGenerator._BuildProjectData and XmlBuilder.BuildPbxproj: a
\* lookup of a key the table does not hold raises KeyError
BuildPbxproj(p, uuids) ==
    IF ~(PbxprojKeys \subseteq {e.key : e \in Range(uuids)})
    THEN [raised |-> TRUE, content |-> <<>>]
    ELSE [raised |-> FALSE,
          content |->
            <<Line("Project", p.name, IdOf(uuids, "project"), IdOf(uuids, "target"))>> \o
            [i \in 1..Len(GetAllFiles(p)) |->
                Line("FileRef", "../../" \o FilePath(p, GetAllFiles(p)[i].path),
                     IdOf(uuids, "file_refs/file_" \o ToString(i - 1)), GetAllFiles(p)[i].file_type)] \o
            <<Line("BuildPhase", "NutBuild", IdOf(uuids, "build_phase_nutbuild"), ""),
              NutBuildCommand("shellScript", p.name, "Darwin", "$CONFIGURATION")>>]

\* VcxprojGenerator._GenerateVcxprojContent
VcxprojContent(p) ==
    LET item(tag, fl) == [i \in 1..Len(fl) |-> Line(tag, "../../" \o FilePath(p, fl[i].path), "", "")]
    IN  <<Line("ProjectGuid", GenerateGuid(p.name), "", ""),
          NutBuildCommand("PreBuildEvent", p.name, "Windows", "Debug"),
          NutBuildCommand("PreBuildEvent", p.name, "Windows", "Release")>> \o
        item("ClCompile", p.files["Sources"]) \o item("ClInclude", p.files["Headers"]) \o
        item("None", p.files["Meta"] \o p.files["Configs"])

\* VcxprojGenerator._GenerateFiltersContent
FiltersContent(p) ==
    LET item(tag, g) == [i \in 1..Len(p.files[g]) |-> Line(tag, "../../" \o FilePath(p, p.files[g][i].path), g, "")]
    IN  item("ClCompile", "Sources") \o item("ClInclude", "Headers") \o item("None", "Meta") \o
        item("None", "Configs")

UnitKey(p) == p.group_name \o "/" \o p.name
Written(path, content) == [run |-> run, path |-> path, content |-> content]
Report(unit, path) == [run |-> run, unit |-> unit, path |-> path]

\* cli.GenerateXcodeProjects / GenerateVsProjects: the project emitter is built
NewGenerator ==
    /\ gpc = "ready" /\ gcmd \in {"xcode", "vs"}
    /\ \E seed \in Draws : rng' = UuidGenerator(seed)
    /\ gidx' = 1 /\ gpc' = "projects"
    /\ UNCHANGED <<tree, didx, projects, warnings, gexit, gcmd, run, denied, opaque, derived,
                   written, reported, envVars, fs, engineVars, buildVars, scanVars, svcVars>>

emitRest == <<tree, didx, projects, warnings, gexit, gcmd, run, denied, opaque,
              envVars, fs, engineVars, buildVars, scanVars, svcVars>>

\* BaseGenerator.GenerateProjects, one iteration, with
\* XCodeProjectGenerator.GenerateProject
XcodeGenerateProject ==
    /\ gpc = "projects" /\ gcmd = "xcode" /\ gidx <= Len(projects)
    /\ LET p == projects[gidx]
           uuids == GenerateUuids(rng, p)
           built == BuildPbxproj(p, uuids)
           dir == "Projects/" \o p.group_name \o "/" \o p.name \o ".xcodeproj"
       IN  IF is_csharp(p)
           THEN /\ reported' = Append(reported, Report(UnitKey(p), None))
                /\ UNCHANGED <<rng, derived, written>>
           ELSE /\ rng' = [rng EXCEPT !.n = @ + Len(uuids)]
                /\ derived' = Append(derived, [run |-> run, unit |-> UnitKey(p), uuids |-> uuids])
                /\ IF built.raised \/ UnitKey(p) \in denied
                   THEN UNCHANGED <<written, reported>>
                   ELSE /\ written' = Append(written, Written(dir \o "/project.pbxproj", built.content))
                        /\ reported' = Append(reported, Report(UnitKey(p), dir))
    /\ gidx' = gidx + 1
    /\ UNCHANGED <<gpc, emitRest>>

\* BaseGenerator.GenerateProjects, one iteration, with
\* VcxprojGenerator.GenerateProject
VcxprojGenerateProject ==
    /\ gpc = "projects" /\ gcmd = "vs" /\ gidx <= Len(projects)
    /\ LET p == projects[gidx]
           file == "Projects/" \o p.group_name \o "/" \o p.name \o ".vcxproj"
       IN  IF is_csharp(p)
           THEN /\ reported' = Append(reported, Report(UnitKey(p), None))
                /\ UNCHANGED written
           ELSE IF UnitKey(p) \in denied
           THEN UNCHANGED <<written, reported>>
           ELSE /\ written' = written \o << Written(file, VcxprojContent(p)),
                                            Written(file \o ".filters", FiltersContent(p)) >>
                /\ reported' = Append(reported, Report(UnitKey(p), file))
    /\ gidx' = gidx + 1
    /\ UNCHANGED <<gpc, rng, derived, emitRest>>

\* cli.GenerateXcodeProjects / GenerateVsProjects: GenerateProjects has
\* returned and the workspace emitter is built
NewWorkspaceGenerator ==
    /\ gpc = "projects" /\ gidx > Len(projects)
    /\ \E seed \in Draws : rng' = UuidGenerator(seed)
    /\ gpc' = "workspace"
    /\ UNCHANGED <<gidx, derived, written, reported, emitRest>>

\* WorkspaceGenerator.GenerateWorkspace, and the return of cli.main
GenerateWorkspace ==
    /\ gpc = "workspace"
    /\ IF gcmd = "xcode"
       THEN /\ written' = Append(written, Written("Nut.xcworkspace/contents.xcworkspacedata",
                                               XcodeWorkspace(projects)))
            /\ reported' = Append(reported, Report(None, "Nut.xcworkspace"))
       ELSE /\ written' = Append(written, Written("Nut.sln", VsSolution(projects)))
            /\ reported' = Append(reported, Report(None, "Nut.sln"))
    /\ gpc' = "done" /\ gexit' = 0
    /\ UNCHANGED <<tree, didx, projects, warnings, gcmd, run, gidx, rng, denied, opaque, derived,
                   envVars, fs, engineVars, buildVars, scanVars, svcVars>>

\* ClangdGenerator.GenerateProjectCompileCommands: the files a project gets
\* compile commands for. The suffix test is on the name as it is on disk;
\* without a hit the Sources directory is searched, then the project directory
CppSuffixes == <<".cpp", ".cxx", ".cc", ".c">>
Search(listing) == Flat([i \in 1..Len(CppSuffixes) |-> SelectSeq(listing, LAMBDA f : f.ext = CppSuffixes[i])])
CompiledFiles(p) ==
    LET own == SelectSeq(p.files["Sources"], LAMBDA fi : fi.path.ext \in Range(CppSuffixes))
        members(l) == [i \in 1..Len(l) |-> l[i].path]
    IN  IF own # <<>> THEN members(own)
        ELSE IF Search(Under(p.dir, "Sources")) # <<>> THEN Search(Under(p.dir, "Sources"))
        ELSE Search(Under(p.dir, ""))

\* ClangdGenerator.CollectProjectIncludeDirs: Path.exists() raises when the
\* directory of the project's generated headers cannot be examined
IncludeDirsRaise(p) == UnitKey(p) \in opaque

\* one record of compile_commands.json: directory, file and command
GenerateProjectCompileCommands(p) ==
    [i \in 1..Len(CompiledFiles(p)) |->
        Line("command", ".", FilePath(p, CompiledFiles(p)[i]),
             "clang++ -I " \o ProjectPath(p) \o "/Sources -c " \o FilePath(p, CompiledFiles(p)[i]))]

\* ClangdGenerator.GenerateProjectSpecificConfig over the C++ projects, up to
\* the first one whose include directories cannot be collected
RECURSIVE ProjectConfigs(_)
ProjectConfigs(ps) ==
    IF ps = <<>> THEN [raised |-> FALSE, files |-> <<>>, reports |-> <<>>]
    ELSE IF IncludeDirsRaise(ps[1]) THEN [raised |-> TRUE, files |-> <<>>, reports |-> <<>>]
    ELSE LET rest == ProjectConfigs(Tail(ps))
             path == ProjectPath(ps[1]) \o "/.clangd"
             ok == UnitKey(ps[1]) \notin denied
         IN  [raised |-> rest.raised,
              files |-> (IF ok THEN <<Written(path, <<Line("Add", "-I", ProjectPath(ps[1]) \o "/Sources", "")>>)>>
                         ELSE <<>>) \o rest.files,
              reports |-> (IF ok THEN <<Report(UnitKey(ps[1]), path)>> ELSE <<>>) \o rest.reports]

\* cli.GenerateClangdConfigs with ClangdGenerator.GenerateClangdConfigs: the
\* global configuration, compile_commands.json, one configuration per C++
\* project, all inside one try block whose handler returns {}
GenerateClangdConfigs ==
    /\ gpc = "ready" /\ gcmd = "clangd"
    /\ LET cpp == SelectSeq(projects, LAMBDA p : ~is_csharp(p))
           global == Written(".clangd", <<Line("Add", "-std=c++20", "", "")>>)
           cmdRaise == \E i \in 1..Len(cpp) : CompiledFiles(cpp[i]) # <<>> /\ IncludeDirsRaise(cpp[i])
           commands == Written("compile_commands.json",
                            Flat([i \in 1..Len(cpp) |-> GenerateProjectCompileCommands(cpp[i])]))
           configs == ProjectConfigs(cpp)
       IN  IF cmdRaise
           THEN written' = Append(written, global) /\ UNCHANGED reported
           ELSE /\ written' = written \o <<global, commands>> \o configs.files
                /\ IF configs.raised THEN UNCHANGED reported
                   ELSE reported' = reported \o << Report(None, ".clangd"), Report(None, "compile_commands.json") >>
                                             \o configs.reports
    /\ gpc' = "done" /\ gexit' = 0
    /\ UNCHANGED <<tree, didx, projects, warnings, gcmd, run, gidx, rng, denied, opaque, derived,
                   envVars, fs, engineVars, buildVars, scanVars, svcVars>>

\* the same command is given once more on the unchanged tree
Rerun ==
    /\ gpc = "done" /\ run < MaxRuns
    /\ run' = run + 1
    /\ gpc' = "discover" /\ didx' = 1 /\ projects' = <<>> /\ warnings' = <<>> /\ gexit' = -1
    /\ UNCHANGED <<tree, gcmd, gidx, rng, denied, opaque, derived, written, reported,
                   envVars, fs, engineVars, buildVars, scanVars, svcVars>>

\* the project directories tried with the emitters
EmitShapes ==
    { Content(UsualMeta, UsualFiles, <<>>),
      Content(UsualMeta, << Member("Sources", "B", ".CPP", FALSE, FALSE), Member("Sources", "a", ".cpp", FALSE, FALSE),
                           Member("Meta", "notes", ".md", FALSE, FALSE) >>, <<>>),
      Content(UsualMeta, << Member("Sources", "hid", ".cpp", TRUE, FALSE) >>, <<>>),
      Content(UsualMeta, <<>>, <<RootCpp>>),
      Content(<<>>, CsFiles, <<Csproj>>) }

\* the failures tried: at most one unit whose output files cannot be written
\* and at most one whose generated-header directory cannot be examined
AtMostOne(S) == {{}} \cup {{x} : x \in S}
UnitsOf(t) == {t[i].group \o "/" \o t[i].name : i \in 1..Len(t)}

\* cli.main started with one of the generate commands
InitGen ==
    /\ NoEngine
    /\ tree \in TreesOver(EmitShapes, MaxProjects)
    /\ gpc = "discover" /\ didx = 1 /\ projects = <<>> /\ warnings = <<>> /\ gexit = -1
    /\ gcmd \in {"xcode", "vs", "clangd"} /\ run = 1 /\ gidx = 0 /\ rng = None
    /\ denied \in AtMostOne(UnitsOf(tree))
    /\ opaque \in (IF gcmd = "clangd" THEN AtMostOne(UnitsOf(tree)) ELSE {{}})
    /\ derived = <<>> /\ written = <<>> /\ reported = <<>>

NextGen ==
    \/ AnalyzeProjectDirectory \/ DiscoverProjects
    \/ NewGenerator \/ XcodeGenerateProject \/ VcxprojGenerateProject
    \/ NewWorkspaceGenerator \/ GenerateWorkspace
    \/ GenerateClangdConfigs \/ Rerun

SpecGen == InitGen /\ [][NextGen]_vars

\* ------------------------------------------------------- service generator
\* ServiceGenerator.py: GenerateService(service_name, port) scaffolds a unit
\* below MicroServices from the built-in templates

base_port == 50051

\* the directories below MicroServices before the call
ServiceDirs == {"S1", "S2", "N"}

\* a directory below MicroServices: whether it exists and the listen_port of
\* its Configs/<dir>Config.json (<<>>: no such file)
ServiceDir(exists, config) == [exists |-> exists, config |-> config]
NoDir == ServiceDir(FALSE, <<>>)

\* an f-string substitution {port}: str(port), "None" for Python's None
Render(p) == IF p = <<>> THEN "None" ELSE ToString(p[1])

\* GetNextAvailablePort: the listen_port of every <dir>/Configs/<dir>Config.json
\* is used; count up from base_port while the number is a used one
RECURSIVE WhilePortUsed(_, _)
WhilePortUsed(p, used_ports) == IF p \in used_ports THEN WhilePortUsed(p + 1, used_ports) ELSE p

GetNextAvailablePort(dirs) ==
    LET used_ports == {dirs[d].config[1] : d \in {e \in DOMAIN dirs : dirs[e].exists /\ dirs[e].config # <<>>}}
    IN  WhilePortUsed(base_port, used_ports)

\* Python's `port or x`: x when port is None or 0
PortOr(p, x) == IF p = <<>> THEN x ELSE IF p[1] = 0 THEN x ELSE p[1]

NothingEmitted ==
    [files |-> {}, config |-> "unset", docker |-> "unset", k8s |-> "unset", shown |-> "unset"]

svcRest == <<envVars, fs, engineVars, buildVars, scanVars, genVars>>

\* GenerateService, lines 33-34: mkdir Sources, Configs, Protos, Meta
CreateDirectoryStructure ==
    /\ vpc = "dirs"
    /\ services_dir' = [services_dir EXCEPT ![service_name].exists = TRUE]
    /\ vpc' = "sources"
    /\ UNCHANGED <<service_name, port, emitted, before, svcRest>>

\* line 37: <name>Main.cpp
GenerateSourceFiles ==
    /\ vpc = "sources"
    /\ emitted' = [emitted EXCEPT !.files = @ \cup {"Sources/Main.cpp"}]
    /\ vpc' = "config"
    /\ UNCHANGED <<services_dir, service_name, port, before, svcRest>>

\* line 40: an omitted port is replaced by GetNextAvailablePort() inside this
\* method only; the config file gets the result
GenerateConfigFiles ==
    /\ vpc = "config"
    /\ LET p == IF port = <<>> THEN <<GetNextAvailablePort(services_dir)>> ELSE port
       IN  /\ services_dir' = [services_dir EXCEPT ![service_name].config = p]
           /\ emitted' = [emitted EXCEPT !.files = @ \cup {"Configs/Config.json"}, !.config = Render(p)]
    /\ vpc' = "proto"
    /\ UNCHANGED <<service_name, port, before, svcRest>>

\* line 43: <name>.proto
GenerateProtoFiles ==
    /\ vpc = "proto"
    /\ emitted' = [emitted EXCEPT !.files = @ \cup {"Protos/proto"}]
    /\ vpc' = "meta"
    /\ UNCHANGED <<services_dir, service_name, port, before, svcRest>>

\* line 46: Build.py, Docker.py and Kubernetes.py, the last two rendered
\* with the port argument as GenerateService received it
GenerateMetaFiles ==
    /\ vpc = "meta"
    /\ emitted' = [emitted EXCEPT !.files = @ \cup {"Meta/Build.py", "Meta/Docker.py", "Meta/Kubernetes.py"},
                                  !.docker = Render(port), !.k8s = Render(port)]
    /\ vpc' = "print"
    /\ UNCHANGED <<services_dir, service_name, port, before, svcRest>>

\* lines 48-51: the messages, the port among them, and return True
GenerateService ==
    /\ vpc = "print"
    /\ emitted' = [emitted EXCEPT !.shown = ToString(PortOr(port, GetNextAvailablePort(services_dir)))]
    /\ vpc' = "done"
    /\ UNCHANGED <<services_dir, service_name, port, before, svcRest>>

\* the listen ports of the configs that exist before the call, the names and
\* the port arguments GenerateService is called with
ConfigShapes == {NoDir, ServiceDir(TRUE, <<>>), ServiceDir(TRUE, <<50051>>), ServiceDir(TRUE, <<50052>>)}
PortArgs == {<<>>, <<0>>, <<50051>>, <<8080>>}

InitService ==
    /\ variant = "BS" /\ platform = "Linux" /\ avail = {}
    /\ meta = [u \in Units |-> MetaOf(u, <<>>)]
    /\ fs = [u \in Units |-> DiskOf({}, {}, {}, Absent, Absent)]
    /\ services = <<>> /\ protoc = "unset"
    /\ InitEngine /\ InitBuild /\ NoScan
    /\ tree = <<>> /\ gpc = "off" /\ didx = 0 /\ projects = <<>> /\ warnings = <<>>
    /\ gexit = -1 /\ NoEmit
    /\ \E a \in ConfigShapes, b \in ConfigShapes :
          services_dir = [d \in ServiceDirs |-> IF d = "S1" THEN a ELSE IF d = "S2" THEN b ELSE NoDir]
    /\ service_name \in {"N", "S1"} /\ port \in PortArgs
    /\ vpc = "dirs" /\ emitted = NothingEmitted /\ before = services_dir

NextService ==
    \/ CreateDirectoryStructure \/ GenerateSourceFiles \/ GenerateConfigFiles
    \/ GenerateProtoFiles \/ GenerateMetaFiles \/ GenerateService

SpecService == InitService /\ [][NextService]_vars

\* ================================================================ properties
\* the BuildService call of `cur` has ended (returned or raised)
BuildEnded == cmd = "build" /\ cur # None /\ bpc \in {"ret", "raised"}

Idx(k) == {i \in 1..Len(log) : log[i].k = k}
Failed(k) == \E i \in Idx(k) : ~log[i].ok

Rank(k) == CASE k \in {"protoc", "warning"} -> 1
             [] k = "compile" -> 2
             [] k = "link" -> 3
             [] k = "copy" -> 4

\* everything a directory listing of the sources can hand to the Compile stage
GlobSet(d) == UNION {Range(q) : q \in Glob(d)}

\* C1: within one Build of a unit the external steps come in the order
\* ProtoGen, Compile, Link, Stage, and a failed step is the last step of that
\* Build: nothing of a later stage (and nothing at all) runs after it.
C1_StagesInOrderAndGated ==
    cmd = "build" =>
        /\ \A i, j \in 1..Len(log) : i < j => Rank(log[i].k) <= Rank(log[j].k) /\ log[i].ok
        /\ (\E i \in 1..Len(log) : ~log[i].ok) => bpc \in {"ret", "raised", "idle"}

\* a Build that ran protoc and the compiler and then failed to link has returned
C1_Witness ==
    /\ BuildEnded /\ report = "LinkFailure"
    /\ Idx("protoc") # {} /\ Idx("compile") # {} /\ Failed("link") /\ Idx("copy") = {}

\* C2 (as claimed): a command without a unit name visits every unit of the
\* mapping exactly once, whatever happened to the units before it.
C2_EveryUnitVisited ==
    (epc = "idle" /\ hist # <<>> /\ arg = None) => visited = services

\* `build` succeeded as a whole: the named unit exists and every unit built reports success
AllSucceeded ==
    /\ arg # None => arg \in Names
    /\ Len(results) = Len(ToVisit(arg))
    /\ \A i \in 1..Len(results) : results[i][2] = "Success"

\* C3 (as claimed): the build command exits with 0 exactly when every unit it
\* built succeeded, and with a nonzero status otherwise (unit failed or not found).
C3_ExitCodeTellsFailure ==
    (epc = "idle" /\ hist # <<>> /\ cmd = "build") => (exitCode = 0 <=> AllSucceeded)

DeclaresProtos(u) == meta[u].proto_files # <<>>

NoCompilerBuild == BuildEnded /\ DeclaresProtos(cur) /\ DetectCompiler.compiler = None

\* C5 (as claimed): every Build of a unit with declared proto files and no
\* compiler reports the toolchain as unavailable and leaves outputDir empty.
C5_AlwaysToolchainUnavailable ==
    NoCompilerBuild => report = "ToolchainUnavailable" /\ fs[cur].out.files = {}

\* C5 (amended): such a Build issues no compile, link or copy command and
\* leaves the content of outputDir as it was before the call; it reports the
\* toolchain as unavailable exactly when no protoc call failed and the source
\* enumeration found a file, otherwise the earlier failure.
C5_NoCompilerAddsNothing ==
    NoCompilerBuild =>
        /\ Idx("compile") = {} /\ Idx("link") = {} /\ Idx("copy") = {}
        /\ fs[cur].out.files = pre.out.files
        /\ report \in {"ProtoGenFailure", "NoSourceFiles", "ToolchainUnavailable"}
        /\ report = "ToolchainUnavailable" <=> (~Failed("protoc") /\ GlobSet(fs[cur]) # {})

C5_Witness ==
    /\ NoCompilerBuild /\ report = "ToolchainUnavailable" /\ Idx("protoc") # {}
    /\ pre.out.files = Stale /\ fs[cur].out.files = Stale

\* the proto files the ProtoGen stage of this call has to look at
ProtoPlan(u) == IF variant = "BS" THEN {ProtoListBS(u)} ELSE Orders(pre.protos)

ProtoEvents == SelectSeq(log, LAMBDA e : e.k \in {"protoc", "warning"})

\* C6: a proto file that is absent only yields a warning, the remaining proto
\* files are still processed and the Build goes on to the source enumeration;
\* a failed protoc call ends the Build before any compile command.
C6_MissingProtoWarnsFailedProtocAborts ==
    BuildEnded =>
        /\ Failed("protoc") => report = "ProtoGenFailure" /\ Idx("compile") = {} /\ bpc = "ret"
        /\ ~Failed("protoc") =>
              /\ report # "ProtoGenFailure"
              /\ [i \in 1..Len(ProtoEvents) |-> ProtoEvents[i].f] \in ProtoPlan(cur)
              /\ \A i \in 1..Len(ProtoEvents) :
                    ProtoEvents[i].k = "warning" <=> ProtoEvents[i].f \notin pre.protos

\* a warning for the absent p, then protoc for q, then a compile command
C6_Witness ==
    /\ BuildEnded
    /\ \E i \in Idx("warning"), j \in Idx("protoc"), n \in Idx("compile") :
          i < j /\ j < n /\ log[i].f = "p" /\ log[j].f = "q"

\* C7: the linker is invoked only when every enumerated source file has been
\* compiled successfully in this call; a failed compile is the last command
\* of the call (no later file is compiled, no link).
C7_LinkAfterAllCompiles ==
    cmd = "build" =>
        /\ \A n \in Idx("link") :
              /\ {log[i].f : i \in {j \in Idx("compile") : j < n /\ log[j].ok}} = GlobSet(fs[cur])
              /\ Range(objFiles) = {File(f.stem, tools.obj_ext) : f \in GlobSet(fs[cur])}
        /\ \A i \in Idx("compile") : ~log[i].ok => i = Len(log) /\ bpc \in {"ret", "raised", "idle"}

\* the linker ran after two source files were compiled
C7_Witness == BuildEnded /\ Idx("link") # {} /\ Cardinality(Idx("compile")) >= 2

NoSourceOnDisk(d) == \A f \in d.srcs : f.ext \notin {".cpp", ".c", ".cc"}

CleanEnded == cmd = "clean" /\ cur # None /\ bpc = "ret"

Gone(d) == ~d.out.exists /\ ~ObjDir(d).exists

\* the previous command was a Clean that visited unit u
CleanedJustBefore(u) ==
    /\ hist # <<>>
    /\ hist[Len(hist)][1] = "clean"
    /\ u \in Range(ToVisit(hist[Len(hist)][2]))

\* C4: Clean never raises; after it neither outputDir nor the directory of
\* the objects exists, whatever was there before; a Clean of a unit that is
\* already clean, in particular the second of two Cleans in a row, changes
\* nothing on disk.
C4_CleanIdempotent ==
    /\ cmd = "clean" => bpc # "raised" /\ exitCode # 1
    /\ CleanEnded =>
          /\ Gone(fs[cur]) /\ report = "Cleaned"
          /\ fs[cur].srcs = pre.srcs /\ fs[cur].protos = pre.protos /\ fs[cur].cfgs = pre.cfgs
          /\ (Gone(pre) \/ CleanedJustBefore(cur)) => fs[cur] = pre

\* the second Clean in a row of a unit whose two directories existed at first
C4_Witness ==
    /\ CleanEnded /\ cur = "A" /\ CleanedJustBefore("A") /\ fs["A"] = pre
    /\ Len(hist) = 1 /\ variant = "NBT"

\* the descriptors the scan loads, in the order it loads them
RECURSIVE EntriesFrom(_, _)
EntriesFrom(r, i) ==
    IF r > Len(scan) THEN <<>>
    ELSE IF i > Len(scan[r]) THEN EntriesFrom(r + 1, 1)
    ELSE Files(r, i) \o EntriesFrom(r, i + 1)

Declaring == SelectSeq(EntriesFrom(1, 1), LAMBDA f : f.kind = "ok")

\* C9: the mapping discovery returns has one entry per declared name, keyed
\* by that name, and its value is the descriptor discovered last among those
\* that declare the name (within a root and across the two roots).
C9_LastDiscoveredWins ==
    spc = "done" =>
        /\ \A i, j \in 1..Len(found) : i # j => found[i][1] # found[j][1]
        /\ {found[i][1] : i \in 1..Len(found)} = {Declaring[k].name : k \in 1..Len(Declaring)}
        /\ \A i \in 1..Len(found) :
              /\ found[i][2].name = found[i][1]
              /\ \E k \in 1..Len(Declaring) :
                    /\ Declaring[k] = found[i][2]
                    /\ \A n \in (k+1)..Len(Declaring) : Declaring[n].name # found[i][1]
        /\ services = [i \in 1..Len(found) |-> found[i][1]]

\* the same name declared in the first root and again in the second root
C9_Witness ==
    /\ spc = "done"
    /\ \E k, n \in 1..Len(Declaring) :
          /\ Declaring[k].root = 1 /\ Declaring[n].root = 2
          /\ Declaring[k].name = Declaring[n].name
    /\ \E k, n \in 1..Len(Declaring) :
          /\ Declaring[k].root = 1 /\ Declaring[n].root = 1 /\ k # n
          /\ Declaring[k].name = Declaring[n].name

\* C10 (as claimed): the scan never fails because of a descriptor that cannot
\* be loaded or that lacks ServiceMeta; such a file is skipped and every
\* well-formed descriptor of the scan is in the mapping returned.
C10_ScanFailsSoftly ==
    /\ spc # "failed"
    /\ spc = "done" => {Declaring[k].name : k \in 1..Len(Declaring)} \subseteq Range(services)

\* C11: no code contained in a descriptor file runs during discovery: the
\* mapping of a unit is read from the text of its descriptor, so at no point
\* of a discovery pass has any descriptor file been executed.
C11_DescriptorNeverExecuted == ran = <<>>

\* C20: Package on a unit whose outputDir does not exist creates no archive,
\* changes nothing on disk, tells the user there is nothing to package and
\* returns normally.
C20_PackageWithoutOutputIsNoOp ==
    (cmd = "package" /\ cur # None /\ bpc \in {"ret", "raised"} /\ ~pre.out.exists)
        => /\ bpc = "ret" /\ report = "NothingToPackage"
           /\ fs[cur] = pre

\* ------------------------------------------------ project generator: parsing
\* an expression of the restricted grammar: constants (a minus sign before a
\* number included), lists and maps with string keys, nested at will
RECURSIVE Literal(_)
Literal(n) ==
    \/ n.t = "Constant"
    \/ n.t = "UnaryOp" /\ n.elts[1].t = "Constant" /\ n.elts[1].kind = "num"
    \/ n.t = "List" /\ \A i \in 1..Len(n.elts) : Literal(n.elts[i])
    \/ n.t = "Dict" /\ \A i \in 1..Len(n.items) :
            /\ n.items[i][1].t = "Constant" /\ n.items[i][1].kind = "str"
            /\ Literal(n.items[i][2])

\* the *.Build.py file that decides the metadata of a project directory
PyOf(u) == SelectSeq(u.meta, LAMBDA d : d.lang = "py")
CsOf(u) == SelectSeq(u.meta, LAMBDA d : d.lang = "cs")

\* a valid declarative-literal descriptor: the file parses and binds
\* ServiceMeta, once, to a map written in the restricted grammar
ValidDescriptor(f) ==
    /\ f.ok
    /\ Cardinality({i \in 1..Len(f.stmts) : f.stmts[i].target = "ServiceMeta"}) = 1
    /\ FirstServiceMeta(f.stmts) # 0
    /\ Literal(f.stmts[FirstServiceMeta(f.stmts)].value)

SourceMapping(f) == Eval(f.stmts[FirstServiceMeta(f.stmts)].value)

\* C12: for every valid declarative-literal descriptor the extracted mapping
\* equals the mapping the descriptor writes down: every key with its value,
\* nested maps kept, lists with the same elements in the same order.
C12_ParseRoundTrips ==
    \A i \in 1..Len(projects) :
        (PyOf(projects[i].dir) # <<>> /\ ValidDescriptor(PyOf(projects[i].dir)[1]))
            => projects[i].build_metadata = SourceMapping(PyOf(projects[i].dir)[1])

\* a descriptor with no unit-defining construct: no ServiceMeta map in a
\* *.Build.py file (or a file that does not parse), no class derived from
\* NutTarget in a *.Build.cs file
Malformed(f) ==
    IF f.lang = "py" THEN ~f.ok \/ FirstServiceMeta(f.stmts) = 0 ELSE f.cls = None

Deciding(u) == IF PyOf(u) # <<>> THEN PyOf(u)[1] ELSE CsOf(u)[1]

\* C13: a descriptor without a unit-defining construct yields a failure that
\* names the file, and no unit is produced from it.
C13_MalformedDescriptorGivesNoUnit ==
    gpc # "discover" =>
        \A k \in 1..Len(tree) :
            (tree[k].meta # <<>> /\ Malformed(Deciding(tree[k]))) =>
                /\ \E w \in Range(warnings) :
                       /\ w.group = tree[k].group /\ w.name = tree[k].name
                       /\ w.file = Deciding(tree[k]).fname
                /\ \A i \in 1..Len(projects) : projects[i].dir # tree[k]

\* ---------------------------------------------- project generator: collecting
\* how often a file is listed in the groups of a project
Listed(p, f) ==
    Cardinality({<<g, i>> \in Range(FileGroup) \X (1..Len(p.dir.files)) :
                    i <= Len(p.files[g]) /\ p.files[g][i].path = f})

\* C14: after CollectFiles every regular file that is no dot-file and lies
\* under Sources, Meta, Configs or Protos is in the list of exactly one
\* FileGroup, whatever its extension.
C14_EveryFileInExactlyOneGroup ==
    \A n \in 1..Len(projects) : \A k \in 1..Len(projects[n].dir.files) :
        ~projects[n].dir.files[k].dot => Listed(projects[n], projects[n].dir.files[k]) = 1


\* -------------------------------------------------------------- the emitters
WorkspaceFiles == {"Nut.sln", "Nut.xcworkspace/contents.xcworkspacedata"}
Lines(w, tag) == {w.content[k] : k \in {n \in 1..Len(w.content) : w.content[n].tag = tag}}
Solutions == {w \in Range(written) : w.path = "Nut.sln"}

\* C15: with the tree unchanged, every GenerateWorkspace run writes the same
\* text into the Xcode workspace file and into the Visual Studio solution as
\* the run before it, and in the solutions written two project entries with
\* the same project name carry the same GUID.
C15_WorkspaceDeterministic ==
    /\ \A v, w \in Range(written) :
          v.path \in WorkspaceFiles /\ v.path = w.path => v.content = w.content
    /\ \A v, w \in Solutions : \A a \in Lines(v, "Project"), b \in Lines(w, "Project") :
          a.a = b.a => a.c = b.c

\* the solution has been written in two runs, with two projects of the same
\* name in different groups
C15_Witness ==
    \E v, w \in Solutions :
        /\ v.run = 1 /\ w.run = 2
        /\ \E a, b \in Lines(w, "Project") : a.a = b.a /\ a.b # b.b

\* C16: every identifier an emitter derives for a project file or a workspace
\* file is fixed by the unit: two derivations of the identifier table of the
\* same unit agree, and a file written twice has the same text both times.
C16_IdentifiersDeterministic ==
    /\ \A d, e \in Range(derived) : d.unit = e.unit => d.uuids = e.uuids
    /\ \A v, w \in Range(written) : v.path = w.path => v.content = w.content

\* the project file a native emitter writes for a project
ProjectFile(p) ==
    IF gcmd = "xcode" THEN "Projects/" \o p.group_name \o "/" \o p.name \o ".xcodeproj/project.pbxproj"
    ELSE "Projects/" \o p.group_name \o "/" \o p.name \o ".vcxproj"
ProjectsDone == gcmd \in {"xcode", "vs"} /\ gpc \in {"workspace", "done"}
FilesOf(p) == {w \in Range(written) : w.run = run /\ w.path = ProjectFile(p)}
Mentions(w, path) == \E k \in 1..Len(w.content) : w.content[k].a = path

\* C17: when a native project emitter has gone through the projects, every
\* C++ project whose output can be written has a project file that lists
\* each of its classified files and holds a build step running the
\* NutBuildTools binary with the project's name as target, and no C# project
\* has a native project file.
C17_NativeProjectFilePerUnit ==
    ProjectsDone =>
        \A i \in 1..Len(projects) :
            LET p == projects[i] IN
            IF is_csharp(p) THEN FilesOf(p) = {}
            ELSE UnitKey(p) \notin denied =>
                    \E w \in FilesOf(p) :
                        /\ \A k \in 1..Len(GetAllFiles(p)) :
                              Mentions(w, "../../" \o FilePath(p, GetAllFiles(p)[k].path))
                        /\ \E l \in Range(w.content) : l.a = "NUTBUILD_BINARY" /\ l.b = p.name

\* generating the files of project p fails in this run
Fails(p) ==
    \/ UnitKey(p) \in denied \cup opaque
    \/ gcmd = "xcode" /\ BuildPbxproj(p, GenerateUuids(UuidGenerator("r1"), p)).raised

\* C18: when a run of an emitter is over, every C++ project whose own
\* generation did not fail has its files generated and reported, whatever
\* happened to the other projects.
C18_FailureSkipsOnlyThatUnit ==
    gpc = "done" =>
        \A i \in 1..Len(projects) :
            ~is_csharp(projects[i]) /\ ~Fails(projects[i]) =>
                \E r \in Range(reported) :
                    r.run = run /\ r.unit = UnitKey(projects[i]) /\ r.path # None

\* the classified source files of the C++ projects, in discovery order
SourceFilesOf(ps) ==
    Flat([i \in 1..Len(ps) |->
            IF is_csharp(ps[i]) THEN <<>>
            ELSE [k \in 1..Len(ps[i].files["Sources"]) |-> FilePath(ps[i], ps[i].files["Sources"][k].path)]])

\* C19: the compile-command database written in a run holds one record for
\* each classified source file of each C++ project and no other record, in
\* discovery order of the projects.
C19_OneRecordPerSourceFile ==
    gpc = "done" =>
        \A w \in Range(written) :
            w.run = run /\ w.path = "compile_commands.json" =>
                [k \in 1..Len(w.content) |-> w.content[k].b] = SourceFilesOf(projects)


\* ------------------------------------------------------ packaging and listing
\* output_dir.iterdir(): the entries directly inside outputDir
DirectEntries(d) == d.out.files \cup (IF d.out.deep # {} THEN {SubDir} ELSE {})

\* C21: the archive a successful Package of a unit wrote holds exactly the
\* entries lying directly inside outputDir, each under its base name, and no
\* member from below a subdirectory of outputDir.
C21_ArchiveIsShallow ==
    (cmd = "package" /\ cur # None /\ bpc = "ret" /\ report = "Packaged") =>
        fs[cur].tar.files = DirectEntries(pre)


\* the unit names in the order of str
Alphabetical == <<"A", "B">>
Place(n) == CHOOSE i \in 1..Len(Alphabetical) : Alphabetical[i] = n

\* C22: the list command prints every discovered unit once, and the names
\* come in sorted order whatever the order of discovery was.
C22_ListIsSortedAndComplete ==
    spc = "listed" =>
        /\ Range(printed) = {found[i][1] : i \in 1..Len(found)}
        /\ \A i, j \in 1..Len(printed) : i < j => Place(printed[i]) < Place(printed[j])


\* C23: when discovery has gone through a tree that holds no descriptor file,
\* the result is empty and no error is signalled: the front end does not
\* leave with a failing exit status.
C23_NoDescriptorIsNoError ==
    (gpc \in {"ready", "exited"} /\ \A i \in 1..Len(tree) : tree[i].meta = <<>>) =>
        projects = <<>> /\ gexit # 1


\* ------------------------------------------------------------ the tool probes
\* the candidates in the order the platform's probe goes through them
ProbeOrder ==
    IF platform = "Windows"
    THEN IF variant = "BS" THEN <<"g++.exe", "C:/MinGW/bin/g++.exe", "cl.exe">>
         ELSE <<"g++.exe", "C:/MinGW/bin/g++.exe", "cl.exe", "VS/cl.exe", "Reg/cl.exe">>
    ELSE <<"g++", "clang++">>
IsCl(c) == c \in {"cl.exe", "VS/cl.exe", "Reg/cl.exe"}

\* C24: DetectCompiler returns the first available candidate of the probe
\* order as compiler and linker, with .obj for cl.exe and .o otherwise, and
\* the not-found triple exactly when no candidate is available; FindProtoc
\* returns the bundled protoc when there is one, else the protoc on PATH,
\* else the not-found signal.
C24_FirstViableCandidate ==
    /\ bpc = "probed" =>
          /\ tools.compiler = FirstAvailable(ProbeOrder, avail)
          /\ tools.linker = tools.compiler
          /\ tools.compiler # None => tools.obj_ext = (IF IsCl(tools.compiler) THEN ".obj" ELSE ".o")
          /\ tools = NotFound <=> Range(ProbeOrder) \cap avail = {}
    /\ protoc # "unset" =>
          protoc = (IF LocalProtoc(platform) \in avail THEN LocalProtoc(platform)
                    ELSE IF "protoc" \in avail THEN "PATH/protoc" ELSE None)


\* ------------------------------------------------------- the build, once more
\* the artifact name the descriptor asks for
OutputName(u) == IF meta[u].output # None THEN meta[u].output ELSE meta[u].name
ExeSuffix == IF platform = "Windows" THEN ".exe" ELSE ""

\* C25: when a Build of a unit ended with success, outputDir holds the linked
\* artifact under the output name the descriptor declares (the unit name
\* when it declares none) with the executable suffix of the platform.
C25_ArtifactAtDeclaredName ==
    (BuildEnded /\ report = "Success") => File(OutputName(cur), ExeSuffix) \in fs[cur].out.files


\* C26: within one Build the object files of distinct source files are
\* distinct: the list of objects handed to the linker holds no path twice.
C26_ObjectsAreDistinct ==
    cmd = "build" => \A i, j \in 1..Len(objFiles) : i # j => objFiles[i] # objFiles[j]


\* C27: for any sequence of Build and Clean on a discovered unit, at the
\* moment a compile step or the link step is issued the directory it writes
\* into exists: the directory of the objects for a compile, outputDir for
\* the link, also in a Build that follows a Clean of the same unit.
C27_StepsWriteIntoExistingDirs ==
    (cmd = "build" /\ cur # None /\ bpc = "compile") =>
        /\ (srcQ # <<>> /\ Startable(CompileTool)) => ObjDir(fs[cur]).exists
        /\ (srcQ = <<>> /\ Startable(LinkTool)) => fs[cur].out.exists


\* C28: every compile command of a Build starts with the compiler and every
\* link command with the linker that DetectCompiler returned for that run;
\* when that compiler is not g++, no command invoking g++ is issued.
C28_CommandsUseDetectedTools ==
    cmd = "build" =>
        \A i \in 1..Len(log) :
            /\ log[i].k = "compile" => log[i].tool = tools.compiler
            /\ log[i].k = "link" => log[i].tool = tools.linker
            /\ (log[i].k \in {"compile", "link"} /\ tools.compiler # "g++") => log[i].tool # "g++"


\* the project entries and the solution-folder entries of a solution, in order
Entries(w) == SelectSeq(w.content, LAMBDA l : l.tag \in {"Project", "Folder"})

\* C29: in every Visual Studio solution written, the GUIDs of the project
\* entries and of the solution-folder entries are pairwise distinct, also for
\* projects that share a directory name in different groups.
C29_SolutionGuidsDistinct ==
    \A w \in Solutions :
        \A i, j \in 1..Len(Entries(w)) : i # j => Entries(w)[i].c # Entries(w)[j].c


\* the smallest port from base_port on that no config of dirs uses
SmallestFree(dirs) ==
    LET used == {dirs[d].config[1] : d \in {e \in DOMAIN dirs : dirs[e].exists /\ dirs[e].config # <<>>}}
    IN  CHOOSE p \in base_port..(base_port + Cardinality(used)) :
            p \notin used /\ \A q \in base_port..(p - 1) : q \in used

\* C30: after GenerateService(name, port), with a given port and with an
\* omitted port, the listen_port of the config file, the exposed port of the
\* Docker descriptor, the container port of the Kubernetes descriptor and
\* the port printed are one number, and with an omitted port it is the
\* smallest port from 50051 on that no service config used before the call.
C30_OnePortEverywhere ==
    vpc = "done" =>
        /\ emitted.docker = emitted.config
        /\ emitted.k8s = emitted.config
        /\ emitted.shown = emitted.config
        /\ port = <<>> => emitted.config = ToString(SmallestFree(before))

====
